---- MODULE Spec2Model ----
(***************************************************************************)
(* PicoDI: a reflection based dependency injection container.              *)
(*                                                                         *)
(* The container is modelled as a state machine over its two injector maps *)
(* and the heap of Clean closures it builds while wiring.  Two revisions   *)
(* of the public API live in the repository and both are modelled; `api`   *)
(* says which one a behaviour runs:                                        *)
(*   api = 1  Wire/DryRun/Resolve/GetByType hand the composed Clean back   *)
(*            to the caller, a field tag may carry ",transient", there is  *)
(*            no Destroy;                                                  *)
(*   api = 2  Wire/DryRun/Resolve/GetByType return no Clean, errors are    *)
(*            sentinels, Destroy() tears the container down.               *)
(* The resolution engine (get, instantiateAndWire, funcInjection,          *)
(* wireFields, getByName, getByType) is the same code in both.             *)
(***************************************************************************)
EXTENDS Integers, Sequences, FiniteSets, TLC

VARIABLES
    api,             \* which revision of the public API the container has
    namedInjectors,  \* PicoDI.namedInjectors: name -> injector
    typeInjectors,   \* PicoDI.typeInjectors: reflect.Type -> injector
    heap,            \* the Clean closures that are still reachable
    calls,           \* per producer (and per AfterWire hook): times its body ran
                     \* since the container was new or last destroyed
    cleanedTwice,    \* instances (of this life of the container) whose own
                     \* cleanup callback ran more than once
    held,            \* api 1: the Clean values the caller still holds
    last             \* the call that has just returned and what it returned to
                     \* the caller; Idle once the caller has taken the result

vars == <<api, namedInjectors, typeInjectors, heap, calls, cleanedTwice, held, last>>

(***************************************************************************)
(* Bounds of the model.                                                    *)
(***************************************************************************)
\* producer bodies and AfterWire hooks run at most this often in a behaviour
MaxInst == 4
\* api 1: the caller keeps at most this many returned Clean values
MaxHeld == 2
\* the depth of nested get calls the goroutine's stack holds
MaxDepth == 6

(***************************************************************************)
(* The types, structs, providers and wire targets the container is         *)
(* exercised with.                                                         *)
(***************************************************************************)
NilClean == 0
NoErr == "nil"
ErrProviderNotFound == "ErrProviderNotFound"
ErrProviderAlreadyExists == "ErrProviderAlreadyExists"
ErrMultipleProvidersFound == "ErrMultipleProvidersFound"
errGrumpy == "errGrumpy"
errAfterWire == "errAfterWire"
\* fmt.Errorf("invalid provider function ..."), fmt.Errorf("invalid wire function ...")
errInvalidProviderFunc == "invalid provider function"
errInvalidWireFunc == "invalid wire function"
\* the call does not return: reflect panics
Panic == "panic"
\* the call does not return: the stack grows past its limit and the runtime
\* ends the process
StackOverflow == "stack overflow"

Range(s) == {s[i] : i \in DOMAIN s}
\* the orders in which range may visit a map with the keys S
Perms(S) == {s \in [1..Cardinality(S) -> S] : \A i, j \in DOMAIN s : s[i] = s[j] => i = j}

\* reflect.Kind of a type
Kind(t) ==
    CASE t = "Greeter" -> "interface"
      [] t \in {"*GreeterImpl", "*Polite", "*Event", "*Level2", "*Level3",
                "*Bar", "*Moody", "*Ticket", "*Odd", "*Grump", "*Needy", "*Mixed",
                "*Shy", "*Fresh", "*Chicken", "*Egg"} -> "pointer"
      [] t = "Foo" -> "struct"
      [] t \in {"map[Named]Greeter", "map[Named]*Polite", "map[Named]*Level3"} -> "map"
      [] OTHER -> "invalid"

\* reflect.Type.Elem of a map[Named]T
MapElem(t) ==
    CASE t = "map[Named]Greeter" -> "Greeter"
      [] t = "map[Named]*Polite" -> "*Polite"
      [] t = "map[Named]*Level3" -> "*Level3"
      [] OTHER -> "invalid"

\* reflect.Type.Implements
Implements(t, i) ==
    /\ i = "Greeter"
    /\ t \in {"*GreeterImpl", "*Polite", "Greeter"}

\* a field with the tag `wire:"tag"`, and a field without a wire tag
Field(tag, typ, transient) ==
    [tag |-> tag, typ |-> typ, transient |-> transient, marked |-> TRUE,
     exported |-> TRUE, setter |-> FALSE]
Plain(typ) ==
    [tag |-> "", typ |-> typ, transient |-> FALSE, marked |-> FALSE,
     exported |-> TRUE, setter |-> FALSE]
\* a tagged field that is exported or not, of a struct that has a method
\* Set<FieldName> or not
Member(tag, typ, exported, setter) ==
    [tag |-> tag, typ |-> typ, transient |-> FALSE, marked |-> TRUE,
     exported |-> exported, setter |-> setter]

\* the fields of a struct type, in declaration order; the fields of *Mixed
\* apart, they all carry a `wire` tag
WireFields(t) ==
    CASE t = "*Level2" -> <<Field("", "Greeter", FALSE), Field("", "*Level3", FALSE)>>
      [] t = "*Mixed"  -> <<Plain("Greeter"), Field("", "Greeter", FALSE),
                            Field("polite", "*Polite", FALSE), Plain("*Level3")>>
      [] t = "*Fresh"  -> <<Field("", "*Level3", TRUE)>>
      [] t = "*Shy"    -> <<Member("polite", "*Polite", TRUE, TRUE),
                            Member("", "Greeter", FALSE, TRUE),
                            Member("", "*Level3", FALSE, FALSE)>>
      [] t = "*Bar"    -> <<Field("event", "*Event", FALSE), Field("", "*Level3", FALSE)>>
      [] t = "*Moody"  -> <<Field("", "*Level3", FALSE)>>
      [] OTHER -> <<>>

\* what AfterWire of a struct type returns: "none" when the type has no hook
AfterWireOf(t) ==
    CASE t = "*Bar"    -> [has |-> TRUE, clean |-> TRUE, err |-> NoErr]
      [] t = "*Moody"  -> [has |-> TRUE, clean |-> TRUE, err |-> errAfterWire]
      [] OTHER         -> [has |-> FALSE, clean |-> FALSE, err |-> NoErr]

Provider(name, isFunc, in, out, dyn, clean, err, transient) ==
    [name |-> name, isFunc |-> isFunc, in |-> in, out |-> out, dyn |-> dyn,
     clean |-> clean, err |-> err, transient |-> transient]

\* the providers that get registered: name "" registers by produced type
Catalog ==
    [ NewGreeter |-> Provider("", TRUE, <<>>, "*GreeterImpl", "*GreeterImpl", TRUE, NoErr, FALSE),
      NewEvent   |-> Provider("event", TRUE, <<"Greeter">>, "*Event", "*Event", TRUE, NoErr, FALSE),
      Polite     |-> Provider("", FALSE, <<>>, "*Polite", "*Polite", FALSE, NoErr, FALSE),
      NewLevel2  |-> Provider("", TRUE, <<>>, "*Level2", "*Level2", TRUE, NoErr, FALSE),
      NewLevel3  |-> Provider("", TRUE, <<>>, "*Level3", "*Level3", TRUE, NoErr, FALSE),
      NewGrumpyEvent |-> Provider("grumpy", TRUE, <<"Greeter">>, "*Event", "*Event", FALSE, errGrumpy, FALSE),
      NamedPolite |-> Provider("polite", FALSE, <<>>, "*Polite", "*Polite", FALSE, NoErr, FALSE),
      NewTicket  |-> Provider("", TRUE, <<>>, "*Ticket", "*Ticket", TRUE, NoErr, TRUE),
      NewNothing |-> Provider("", TRUE, <<>>, "invalid", "invalid", FALSE, NoErr, FALSE),
      NewFour    |-> Provider("", TRUE, <<>>, "*Odd", "*Odd", TRUE, NoErr, FALSE),
      NewVEC     |-> Provider("", TRUE, <<>>, "*Odd", "*Odd", TRUE, NoErr, FALSE),
      NewGrump   |-> Provider("", TRUE, <<>>, "*Grump", "*Grump", FALSE, errGrumpy, FALSE),
      NewNeedy   |-> Provider("", TRUE, <<"Greeter", "*Grump">>, "*Needy", "*Needy", TRUE, NoErr, FALSE),
      NamedGreeter |-> Provider("hello", TRUE, <<>>, "*GreeterImpl", "*GreeterImpl", TRUE, NoErr, FALSE),
      \* func() (Greeter, Clean) { return nil, func() {} }
      NewVoid    |-> Provider("void", TRUE, <<>>, "Greeter", "nil", TRUE, NoErr, FALSE),
      \* func(e *Egg) (*Chicken, Clean), func(c *Chicken) (*Egg, Clean)
      NewChicken |-> Provider("", TRUE, <<"*Egg">>, "*Chicken", "*Chicken", TRUE, NoErr, FALSE),
      NewEgg     |-> Provider("", TRUE, <<"*Chicken">>, "*Egg", "*Egg", TRUE, NoErr, FALSE),
      NewHen     |-> Provider("hen", TRUE, <<"*Egg">>, "*Chicken", "*Chicken", TRUE, NoErr, FALSE) ]

\* the result types of a provider function, t.Out(0) .. t.Out(NumOut-1)
Results(p) ==
    CASE p = "NewGreeter" -> <<"value", "clean", "error">>
      [] p = "NamedGreeter" -> <<"value", "clean", "error">>
      [] p \in {"NewEvent", "NewLevel2", "NewLevel3", "NewTicket", "NewNeedy", "NewVoid",
               "NewChicken", "NewEgg", "NewHen"} ->
            <<"value", "clean">>
      [] p \in {"NewGrumpyEvent", "NewGrump"} -> <<"value", "error">>
      [] p = "NewFour" -> <<"value", "clean", "error", "int">>
      [] p = "NewVEC" -> <<"value", "error", "clean">>
      [] OTHER -> <<>>

ProviderIds == DOMAIN Catalog
Names == {"event", "grumpy", "polite", "missing", "hello", "void", "hen"}
Types == {"*GreeterImpl", "*Polite", "*Level2", "*Level3", "*Ticket", "*Odd", "*Grump",
          "*Needy", "*Chicken", "*Egg"}

\* the registration calls: Providers(...) and NamedProviders({...})
TypeBatches == {<<"NewGreeter", "NewLevel2">>, <<"NewLevel3", "NewGreeter">>, <<"Polite">>}
NamedBatches == {{"NewEvent", "NewGrumpyEvent"}}
\* the names Resolve is asked for
ResolveArgs == {"event", "grumpy", "missing"}
\* the types GetByType is asked for
ByTypeArgs == {"*GreeterImpl", "*Level2", "*Level3"}

\* the functions handed to Wire/DryRun: parameter types, result types, and
\* the error the body returns
WireFuncs ==
    [ fnGreeter       |-> [in |-> <<"Greeter">>, out |-> <<>>, err |-> NoErr],
      fnGreeterLevel3 |-> [in |-> <<"Greeter", "*Level3">>, out |-> <<>>, err |-> NoErr],
      fnLevel2        |-> [in |-> <<"*Level2">>, out |-> <<>>, err |-> NoErr],
      fnTicket        |-> [in |-> <<"*Ticket">>, out |-> <<>>, err |-> NoErr],
      fnNoParams      |-> [in |-> <<>>, out |-> <<>>, err |-> NoErr],
      fnTwoResults    |-> [in |-> <<"Greeter">>, out |-> <<"int", "error">>, err |-> NoErr],
      fnReturnsNil    |-> [in |-> <<"Greeter">>, out |-> <<"error">>, err |-> NoErr],
      fnReturnsError  |-> [in |-> <<"Greeter">>, out |-> <<"error">>, err |-> errGrumpy],
      fnNeedy         |-> [in |-> <<"*Needy">>, out |-> <<>>, err |-> NoErr],
      fnGreeters      |-> [in |-> <<"map[Named]Greeter">>, out |-> <<>>, err |-> NoErr],
      fnPolites       |-> [in |-> <<"map[Named]*Polite">>, out |-> <<>>, err |-> NoErr],
      fnLevel3s       |-> [in |-> <<"map[Named]*Level3">>, out |-> <<>>, err |-> NoErr],
      fnChicken       |-> [in |-> <<"*Level3", "*Chicken">>, out |-> <<>>, err |-> NoErr] ]

\* the struct pointers handed to Wire/DryRun
WireStructs == {"*Bar", "*Moody", "*Mixed", "*Shy", "*Fresh"}
\* the targets Wire and DryRun are called with
WireArgs == {"fnGreeter", "fnGreeterLevel3", "fnLevel2", "*Bar", "*Moody"}

\* what the registration forms, the validation of provider and wire functions,
\* the lookup by interface and the transient providers are exercised with
TypeBatchesReg == {<<"NewGreeter">>, <<"Polite", "NewGreeter">>, <<"NewFour">>,
                   <<"NewVEC">>, <<"NewNothing">>}
TransientBatchesReg == {<<"NewTicket">>}
NamedBatchesReg == {{"NamedPolite"}}
ResolveArgsReg == {"polite"}
ByTypeArgsReg == {"*GreeterImpl", "*Ticket", "*Odd"}
WireArgsReg == {"fnGreeter", "fnTicket", "fnNoParams", "fnTwoResults", "fnReturnsNil",
                "fnReturnsError"}

\* what the walk of a dependency graph with a failing producer in it is
\* exercised with
TypeBatchesGraph == {<<"NewGreeter", "NewNeedy">>, <<"NewGrump">>}
NamedBatchesGraph == {{"NewGrumpyEvent"}}
ResolveArgsGraph == {"grumpy"}
ByTypeArgsGraph == {"*Needy", "*Grump"}
WireArgsGraph == {"fnNeedy", "fnGreeter"}

\* what the functions with a map[Named]T parameter are exercised with
TypeBatchesMap == {<<"NewGreeter">>}
NamedBatchesMap == {{"NamedPolite", "NamedGreeter"}, {"NewEvent"}}
ResolveArgsMap == {"hello"}
ByTypeArgsMap == {"*GreeterImpl"}
WireArgsMap == {"fnGreeters", "fnPolites", "fnLevel3s"}

\* what the wiring of a struct with marked and unmarked fields is exercised
\* with
TypeBatchesStruct == {<<"NewGreeter">>, <<"NewLevel3">>}
NamedBatchesStruct == {{"NamedPolite"}}
ResolveArgsStruct == {"polite"}
ByTypeArgsStruct == {"*GreeterImpl"}
WireArgsStruct == {"*Mixed", "*Shy"}

\* what the fields tagged `wire:",transient"` are exercised with
TypeBatchesTransient == {<<"NewLevel3">>}
ByTypeArgsTransient == {"*Level3"}
WireArgsTransient == {"*Fresh"}

\* what a factory that returns a nil interface is exercised with
TypeBatchesNil == {<<"NewLevel3">>, <<"NewGreeter">>}
NamedBatchesNil == {{"NewVoid"}}
ResolveArgsNil == {"void"}
ByTypeArgsNil == {"*Level3"}
WireArgsNil == {"fnGreeterLevel3"}

\* what the container is exercised with where two factories need each other
TypeBatchesCycle == {<<"NewChicken">>, <<"NewEgg">>, <<"NewLevel3">>}
NamedBatchesCycle == {{"NewHen"}}
ResolveArgsCycle == {"hen"}
ByTypeArgsCycle == {"*Chicken", "*Level3"}
WireArgsCycle == {"fnChicken"}

\* what Destroy is exercised with after cleanups the container does not keep
TypeBatchesTeardown == {<<"NewLevel3">>, <<"NewGreeter">>}
TransientBatchesTeardown == {<<"NewTicket">>}
NamedBatchesTeardown == {{"NewEvent"}}
ResolveArgsTeardown == {"event"}
ByTypeArgsTeardown == {"*Ticket", "*Level3"}
WireArgsTeardown == {"*Bar", "fnTicket"}

\* what the container that hands out Clean values is exercised with
TypeBatchesV1 == {<<"NewGreeter", "NewLevel2">>, <<"NewLevel3", "NewGreeter">>}
ResolveArgsV1 == {"event"}
ByTypeArgsV1 == {"*Level2"}
WireArgsV1 == {"*Bar", "fnGreeter", "fnLevel2"}
DryRunArgsV1 == {"*Bar"}

(***************************************************************************)
(* Values.  An instance is identified by the producer whose body returned  *)
(* it and by the number of that invocation; a value provider always hands  *)
(* out the registered value (invocation 0); DryRun synthesizes             *)
(* reflect.Zero of the declared result type.                               *)
(***************************************************************************)
Nil == [p |-> "nil", n |-> 0, t |-> "invalid"]
Instance(p, n, t) == [p |-> p, n |-> n, t |-> t]
Zero(t) == [p |-> "zero", n |-> 0, t |-> t]
\* the map built for a parameter of the type t; what it holds is what the
\* "put" events of the call record
MapValue(t) == [p |-> "map", n |-> 0, t |-> t]

\* the injector of a key nobody registered (the map has no entry)
NoInjector == [provider |-> "none", instance |-> Nil, clean |-> NilClean, transient |-> FALSE]
Registered(inj) == inj.provider # "none"
\* injector.typ
Typ(inj) == Catalog[inj.provider].out

NamedKey(name) == [ns |-> "name", id |-> name]
TypeKey(t) == [ns |-> "type", id |-> t]
NoKey == [ns |-> "none", id |-> ""]

(***************************************************************************)
(* Clean closures.  Each closure is a heap cell holding the variables it   *)
(* captured:                                                               *)
(*   user       the Clean a producer returned (user code)                  *)
(*   hook       the Clean AfterWire returned (user code)                   *)
(*   cleanDeps  wireFields' cleanDeps: captures cleans                     *)
(*   afterwire  wireFields' c: captures cleans and AfterWire's clean       *)
(*   clear      funcInjection's clear: captures cleans and clean           *)
(*   iaw        instantiateAndWire's c: captures clean1 and clean2         *)
(*   cache      get's inj.clean: captures clean and inj                    *)
(* runs counts how often a user or hook callback has run (2 stands for     *)
(* twice or more).                                                         *)
(***************************************************************************)
Closure(k, cleans, c1, c2, inj, inst) ==
    [k |-> k, cleans |-> cleans, c1 |-> c1, c2 |-> c2, inj |-> inj, inst |-> inst,
     runs |-> 0]

\* the machine the engine runs on: the container, the heap, and what the
\* user code it called has observed (log) during this call
\* order is the order in which `range di.namedInjectors` visits the names
\* during the call, for a call that ranges over them
Machine == [api |-> api, named |-> namedInjectors, typed |-> typeInjectors,
            heap |-> heap, calls |-> calls, log |-> <<>>, order |-> <<>>,
            depth |-> 0]
Ranging(m, ord) == [m EXCEPT !.order = ord]

\* what user code (a producer body, a hook, a cleanup callback, a wired
\* target) sees happen: e is "call", "AfterWire", "clean" or "set"; i is the
\* index of the field that was set, or how often the cleanup has now run
Event(e, inst, argv, t, i) == [e |-> e, inst |-> inst, argv |-> argv, t |-> t, i |-> i]
Emit(m, ev) == [m EXCEPT !.log = Append(@, ev)]
Alloc(m, cl) == [m EXCEPT !.heap = Append(@, cl)]
NewId(m) == Len(m.heap) + 1

InjAt(m, key) == IF key.ns = "name" THEN m.named[key.id] ELSE m.typed[key.id]
SetInj(m, key, inj) ==
    IF key.ns = "name" THEN [m EXCEPT !.named[key.id] = inj]
                       ELSE [m EXCEPT !.typed[key.id] = inj]

RECURSIVE Invoke(_, _), InvokeAll(_, _)

\* for _, v := range cleans { v() }
InvokeAll(m, cleans) ==
    IF cleans = <<>> THEN m
    ELSE InvokeAll(Invoke(m, Head(cleans)), Tail(cleans))

\* cleans = nil, in the closure c
ClearCleans(m, c) == [m EXCEPT !.heap[c].cleans = <<>>]
\* the closure c never nils the clean it captured
ClearC1Skipped(m, c, nils) == m
\* clean = nil (clean1 = nil), in the closure c, when the code does so
ClearC1(m, c, nils) == IF nils THEN [m EXCEPT !.heap[c].c1 = NilClean] ELSE m
\* clean2 = nil, in the closure c
ClearC2(m, c) == [m EXCEPT !.heap[c].c2 = NilClean]

\* if clean != nil { clean(); clean = nil }: the closure c calls the clean it
\* captured; nils says whether the code nils it afterwards
InvokeC1(m, c, nils) ==
    IF m.heap[c].c1 # NilClean THEN ClearC1(Invoke(m, m.heap[c].c1), c, nils) ELSE m

\* if clean2 != nil { clean2(); clean2 = nil }
InvokeC2(m, c) ==
    IF m.heap[c].c2 # NilClean THEN ClearC2(Invoke(m, m.heap[c].c2), c) ELSE m

\* inj.instance = nil; inj.clean = nil
Evict(m, key) ==
    SetInj(m, key, [InjAt(m, key) EXCEPT !.instance = Nil, !.clean = NilClean])

\* a user callback runs: its cleanup is observed
RunCallback(m, c) ==
    LET n == IF m.heap[c].runs = 0 THEN 1 ELSE 2
    IN  Emit([m EXCEPT !.heap[c].runs = n], Event("clean", m.heap[c].inst, <<>>, "", n))

\* calling the Clean closure c
Invoke(m, c) ==
    CASE m.heap[c].k \in {"user", "hook"} -> RunCallback(m, c)
      [] m.heap[c].k = "cleanDeps" -> ClearCleans(InvokeAll(m, m.heap[c].cleans), c)
      [] m.heap[c].k = "clear" ->
            InvokeC1(ClearCleans(InvokeAll(m, m.heap[c].cleans), c), c, FALSE)
      [] m.heap[c].k = "afterwire" ->
            InvokeC1(ClearCleans(InvokeAll(m, m.heap[c].cleans), c), c, TRUE)
      [] m.heap[c].k = "iaw" -> InvokeC2(InvokeC1(m, c, TRUE), c)
      [] m.heap[c].k = "cache" -> Evict(InvokeC1(m, c, TRUE), m.heap[c].inj)

(***************************************************************************)
(* The resolution engine.  Every operator takes the machine and returns    *)
(* the machine after the call together with what the Go function returns.  *)
(* A Go function is split where it uses the result of a call it made: the  *)
(* second operator takes that result as its first parameter.               *)
(***************************************************************************)
Res(m, v, c, err) == [m |-> m, v |-> v, c |-> c, err |-> err]
Failed(m, err) == Res(m, Nil, NilClean, err)
Acc(m, vals, cleans, err) == [m |-> m, vals |-> vals, cleans |-> cleans, err |-> err]

\* the function behind a registered provider, as funcInjection sees it
ProviderFunc(p) ==
    [id |-> p, in |-> Catalog[p].in, results |-> Results(p), out |-> Catalog[p].out,
     dyn |-> Catalog[p].dyn, clean |-> Catalog[p].clean, err |-> Catalog[p].err]

\* the function handed to Wire, as funcInjection sees it
WireFunc(f) ==
    [id |-> f, in |-> WireFuncs[f].in, results |-> WireFuncs[f].out, out |-> "error",
     dyn |-> "error", clean |-> FALSE, err |-> WireFuncs[f].err]

RECURSIVE get(_, _, _, _), instantiateAndWire(_, _, _), funcInjection(_, _, _),
          funcArgs(_, _, _, _, _, _), wireFields(_, _, _), fieldLoop(_, _, _, _, _),
          getByName(_, _, _, _), getByType(_, _, _, _),
          mapLoop(_, _, _, _, _, _, _, _)

\* getByName that answers an unregistered name with nothing and no error
getByNameLenient(m, name, transient, dryRun) ==
    IF name \notin Names \/ ~Registered(m.named[name])
    THEN Failed(m, NoErr)
    ELSE get(m, NamedKey(name), transient, dryRun)

\* getByName(name, transient, dryRun)
getByName(m, name, transient, dryRun) ==
    IF name \notin Names \/ ~Registered(m.named[name])
    THEN Failed(m, ErrProviderNotFound)
    ELSE get(m, NamedKey(name), transient, dryRun)

\* getByType that prefers the implementations whose instance is cached
MatchesCachedFirst(m, t) ==
    IF \E u \in Types : /\ Registered(m.typed[u]) /\ Implements(Typ(m.typed[u]), t)
                        /\ m.typed[u].instance # Nil
    THEN {u \in Types : /\ Registered(m.typed[u]) /\ Implements(Typ(m.typed[u]), t)
                        /\ m.typed[u].instance # Nil}
    ELSE {u \in Types : Registered(m.typed[u]) /\ Implements(Typ(m.typed[u]), t)}
\* getByType without the test v.typ.Implements(t)
MatchesAnyType(m, t) == {u \in Types : Registered(m.typed[u])}
\* the registered types whose injector.typ implements the interface t
Matches(m, t) ==
    {u \in Types : Registered(m.typed[u]) /\ Implements(Typ(m.typed[u]), t)}

getByType(m, t, transient, dryRun) ==
    IF Kind(t) = "interface"
    THEN IF Cardinality(Matches(m, t)) = 1
         THEN get(m, TypeKey(CHOOSE u \in Matches(m, t) : TRUE), transient, dryRun)
         ELSE IF Cardinality(Matches(m, t)) > 1
              THEN Failed(m, ErrMultipleProvidersFound)
              ELSE Failed(m, ErrProviderNotFound)
    ELSE IF t \notin Types \/ ~Registered(m.typed[t])
         THEN Failed(m, ErrProviderNotFound)
         ELSE get(m, TypeKey(t), transient, dryRun)

\* inj.clean = func() {...}: the closure that get stores in the injector
StoreClean(m, key, c) ==
    SetInj(Alloc(m, Closure("cache", <<>>, c, NilClean, key, Nil)), key,
           [InjAt(m, key) EXCEPT !.clean = NewId(m)])

\* get that caches the zero value of the type when instantiateAndWire fails
getStoreCachingFailure(r, key, store) ==
    IF ~store THEN r
    ELSE IF r.err # NoErr
    THEN Failed(SetInj(r.m, key, [InjAt(r.m, key) EXCEPT
                                     !.instance = Zero(Typ(InjAt(r.m, key)))]),
                r.err)
    ELSE IF r.c # NilClean
         THEN Res(StoreClean(SetInj(r.m, key, [InjAt(r.m, key) EXCEPT !.instance = r.v]),
                             key, r.c),
                  r.v, NewId(r.m), NoErr)
         ELSE Res(SetInj(r.m, key, [InjAt(r.m, key) EXCEPT !.instance = r.v]),
                  r.v, InjAt(r.m, key).clean, NoErr)

\* get, once instantiateAndWire has returned r: store is FALSE for a
\* transient injector and for a dry run (r is returned as it is)
getStore(r, key, store) ==
    IF ~store THEN r
    ELSE IF r.err # NoErr THEN Failed(r.m, r.err)
    ELSE IF r.c # NilClean
         THEN Res(StoreClean(SetInj(r.m, key, [InjAt(r.m, key) EXCEPT !.instance = r.v]),
                             key, r.c),
                  r.v, NewId(r.m), NoErr)
         ELSE Res(SetInj(r.m, key, [InjAt(r.m, key) EXCEPT !.instance = r.v]),
                  r.v, InjAt(r.m, key).clean, NoErr)

\* get without the test of inj.transient
getCaching(m, key, transient, dryRun) ==
    IF ~(transient \/ dryRun) /\ InjAt(m, key).instance # Nil
    THEN Res(m, InjAt(m, key).instance, InjAt(m, key).clean, NoErr)
    ELSE getStore(instantiateAndWire(m, key, dryRun), key, ~(transient \/ dryRun))

\* get that stores what a dry run resolved
getStoringDryRun(m, key, transient, dryRun) ==
    IF ~(InjAt(m, key).transient \/ transient \/ dryRun) /\ InjAt(m, key).instance # Nil
    THEN Res(m, InjAt(m, key).instance, InjAt(m, key).clean, NoErr)
    ELSE getStore(instantiateAndWire(m, key, dryRun), key,
                  ~(InjAt(m, key).transient \/ transient))

\* get without the test of the transient flag of the field
getIgnoringFlag(m, key, transient, dryRun) ==
    IF ~(InjAt(m, key).transient \/ dryRun) /\ InjAt(m, key).instance # Nil
    THEN Res(m, InjAt(m, key).instance, InjAt(m, key).clean, NoErr)
    ELSE getStore(instantiateAndWire(m, key, dryRun), key,
                  ~(InjAt(m, key).transient \/ dryRun))

\* a frame of get is pushed on entry and popped on return; every nested
\* resolution (a parameter, a tagged field) runs inside the frame
Descend(m) == [m EXCEPT !.depth = @ + 1]
Ascend(r, d) == [r EXCEPT !.m.depth = d]
\* a get that finds its provider on the stack and reports it as an error
ExhaustedAsError(m) == Failed(m, ErrProviderNotFound)
\* get has no memory of the providers it is in the middle of building, so a
\* provider met again is built again, one frame deeper, until the stack is
\* exhausted
Exhausted(m) == Failed(m, StackOverflow)

\* get(inj, dryRun)
get(m, key, transient, dryRun) ==
    IF ~(InjAt(m, key).transient \/ transient \/ dryRun) /\ InjAt(m, key).instance # Nil
    THEN Res(m, InjAt(m, key).instance, InjAt(m, key).clean, NoErr)
    ELSE IF m.depth >= MaxDepth
    THEN Exhausted(m)
    ELSE Ascend(getStore(instantiateAndWire(Descend(m), key, dryRun), key,
                         ~(InjAt(m, key).transient \/ transient \/ dryRun)),
                m.depth)

\* reflect.ValueOf(v).Kind(), followed through a pointer
ElemKind(v) ==
    IF v.p \in {"nil", "zero"}
    THEN IF Kind(v.t) = "struct" THEN "struct" ELSE "invalid"
    ELSE IF Kind(v.t) \in {"pointer", "struct"} THEN "struct" ELSE Kind(v.t)

\* c := func() {...}; return v, c, nil
iawReturn(m, v, clean1, clean2) ==
    Res(Alloc(m, Closure("iaw", <<>>, clean1, clean2, NoKey, Nil)), v, NewId(m), NoErr)

\* instantiateAndWire, once wireFields has returned w
iawWired(w, v, clean1) ==
    IF w.err # NoErr THEN Failed(w.m, w.err) ELSE iawReturn(w.m, v, clean1, w.c)

\* instantiateAndWire, once inj.provider has returned r
iawProvided(r, dryRun) ==
    IF r.err # NoErr THEN Failed(r.m, r.err)
    ELSE IF ElemKind(r.v) = "struct"
         THEN iawWired(wireFields(r.m, r.v.t, dryRun), r.v, r.c)
         ELSE iawReturn(r.m, r.v, r.c, NilClean)

instantiateAndWire(m, key, dryRun) ==
    iawProvided(IF Catalog[InjAt(m, key).provider].isFunc
                THEN funcInjection(m, ProviderFunc(InjAt(m, key).provider), dryRun)
                ELSE Res(m, Instance(InjAt(m, key).provider, 0,
                                     Catalog[InjAt(m, key).provider].dyn),
                         NilClean, NoErr),
                dryRun)

\* the loop over the parameters going on after a parameter failed to resolve
funcArgsNextIgnoring(r, in, i, argv, cleans, dryRun) ==
    funcArgs(r.m, in, i + 1, Append(argv, r.v),
             IF r.c # NilClean THEN Append(cleans, r.c) ELSE cleans, dryRun)

\* the loop over the parameters, once getByType has returned r for in[i]
funcArgsNext(r, in, i, argv, cleans, dryRun) ==
    IF r.err # NoErr
    THEN Acc(r.m, argv, cleans, r.err)
    ELSE funcArgs(r.m, in, i + 1, Append(argv, r.v),
                  IF r.c # NilClean THEN Append(cleans, r.c) ELSE cleans, dryRun)

\* a map[Named]T parameter that takes every registered name
MapMatchesAny(inj, elem) == Registered(inj)
\* valueType.Kind() == reflect.Interface && inj.typ.Implements(valueType) ||
\* inj.typ == valueType
MapMatches(inj, elem) ==
    /\ Registered(inj)
    /\ \/ Kind(elem) = "interface" /\ Implements(Typ(inj), elem)
       \/ Typ(inj) = elem

\* reflect.ValueOf(v) is the zero Value: v is a nil interface
NilInterface(v) == v.p \in {"nil", "zero"} /\ Kind(v.t) \in {"interface", "invalid"}

\* the loop over di.namedInjectors, once getByName has returned r for the
\* name Head(names): aMap.SetMapIndex(name, v) puts v, and deletes the key
\* when reflect.ValueOf(v) is the zero Value
mapNext(r, names, in, i, argv, cleans, len, dryRun) ==
    IF r.err # NoErr
    THEN Acc(r.m, argv, cleans, r.err)
    ELSE mapLoop(Emit(r.m, Event("put", r.v, <<>>, Head(names), i)), Tail(names), in, i,
                 argv, IF r.c # NilClean THEN Append(cleans, r.c) ELSE cleans,
                 IF NilInterface(r.v) THEN len ELSE len + 1, dryRun)

\* for name, inj := range di.namedInjectors {...}, then the test of
\* aMap.Len(); names are the names range has still to visit
mapLoop(m, names, in, i, argv, cleans, len, dryRun) ==
    IF names = <<>>
    THEN IF len = 0
         THEN Acc(m, argv, cleans, ErrProviderNotFound)
         ELSE funcArgs(m, in, i + 1, Append(argv, MapValue(in[i])), cleans, dryRun)
    ELSE IF MapMatches(m.named[Head(names)], MapElem(in[i]))
         THEN mapNext(getByName(m, Head(names), FALSE, dryRun), names, in, i, argv,
                      cleans, len, dryRun)
         ELSE mapLoop(m, Tail(names), in, i, argv, cleans, len, dryRun)

\* the loop over the parameters of the function
funcArgs(m, in, i, argv, cleans, dryRun) ==
    IF i > Len(in)
    THEN Acc(m, argv, cleans, NoErr)
    ELSE IF Kind(in[i]) = "map"
    THEN mapLoop(m, m.order, in, i, argv, cleans, 0, dryRun)
    ELSE funcArgsNext(getByType(m, in[i], FALSE, dryRun), in, i, argv, cleans, dryRun)

\* return value, clear, err: clear captures cleans and the provider's clean
funcReturn(m, inst, cleans, hasClean) ==
    IF hasClean
    THEN Res(Alloc(Alloc(m, Closure("user", <<>>, NilClean, NilClean, NoKey, inst)),
                   Closure("clear", cleans, NewId(m), NilClean, NoKey, Nil)),
             inst, NewId(m) + 1, NoErr)
    ELSE Res(Alloc(m, Closure("clear", cleans, NilClean, NilClean, NoKey, Nil)),
             inst, NewId(m), NoErr)

\* results := provider.Call(argv) and what follows; m has the call counted
funcCalled(m, fn, inst, argv, cleans) ==
    IF Len(fn.results) = 0
    THEN Res(Alloc(Emit(m, Event("call", inst, argv, "", 0)),
                   Closure("clear", cleans, NilClean, NilClean, NoKey, Nil)),
             Nil, NewId(m), NoErr)
    ELSE IF Len(fn.results) > 1 /\ fn.results[Len(fn.results)] = "error" /\ fn.err # NoErr
    THEN \* return nil, nil, er; deferred: cleanDeps()
         Failed(InvokeAll(Emit(m, Event("call", inst, argv, "", 0)), cleans), fn.err)
    ELSE funcReturn(Emit(m, Event("call", inst, argv, "", 0)), inst, cleans,
                    Len(fn.results) > 1 /\ fn.results[2] = "clean" /\ fn.clean)

\* results[0].Interface(): what the n-th invocation of the body of fn
\* returns, nil for a function that returns a nil interface
Made(fn, n) == IF fn.dyn = "nil" THEN Nil ELSE Instance(fn.id, n, fn.dyn)

\* funcInjection, once the loop over the parameters has returned a
funcCall(a, fn, dryRun) ==
    IF a.err # NoErr
    THEN \* deferred: if err != nil { cleanDeps() }
         Failed(InvokeAll(a.m, a.cleans), a.err)
    ELSE IF dryRun
    THEN Res(a.m, IF Len(fn.results) = 0 THEN Nil ELSE Zero(fn.out), NilClean, NoErr)
    ELSE IF fn.id \in DOMAIN WireFuncs
    THEN funcCalled(a.m, fn, Instance(fn.id, 0, fn.dyn), a.vals, a.cleans)
    ELSE funcCalled([a.m EXCEPT !.calls[fn.id] = @ + 1], fn,
                    Made(fn, a.m.calls[fn.id] + 1), a.vals, a.cleans)

funcInjection(m, fn, dryRun) ==
    funcCall(funcArgs(m, fn.in, 1, <<>>, <<>>, dryRun), fn, dryRun)

\* wireFields taking a field without a tag for a field tagged `wire:""`
TaggedAlways(f) == TRUE
\* name, ok := f.Tag.Lookup(wireTagKey)
Tagged(f) == f.marked

\* wireFields looking for the setter before it tries the field itself
HowSetterFirst(f) ==
    IF f.setter THEN "setter" ELSE IF f.exported THEN "set" ELSE "poke"
\* how the field f is written: "set" is fieldValue.Set(v) when
\* fieldValue.CanSet(), "setter" the call of the method Set<FieldName>,
\* "poke" the write through reflect.NewAt and unsafe.Pointer
How(f) ==
    IF f.exported THEN "set" ELSE IF f.setter THEN "setter" ELSE "poke"

\* the loop over the fields going on after a field failed to resolve
fieldNextIgnoring(r, t, i, cleans, dryRun) ==
    IF r.err # NoErr
    THEN fieldLoop(r.m, t, i + 1, cleans, dryRun)
    ELSE fieldLoop(Emit(r.m, Event(How(WireFields(t)[i]), r.v, <<>>, t, i)), t, i + 1,
                   IF r.c # NilClean THEN Append(cleans, r.c) ELSE cleans, dryRun)

\* the loop over the fields, once the field i of t has been resolved to r
fieldNext(r, t, i, cleans, dryRun) ==
    IF r.err # NoErr
    THEN Acc(r.m, <<>>, cleans, r.err)
    ELSE fieldLoop(Emit(r.m, Event(How(WireFields(t)[i]), r.v, <<>>, t, i)), t, i + 1,
                   IF r.c # NilClean THEN Append(cleans, r.c) ELSE cleans, dryRun)

\* the loop over the fields of the struct t that carry a wire tag; api 1
\* splits the tag at "," and looks for the transient flag, api 2 takes the
\* whole tag for the name
fieldLoop(m, t, i, cleans, dryRun) ==
    IF i > Len(WireFields(t))
    THEN Acc(m, <<>>, cleans, NoErr)
    ELSE IF ~Tagged(WireFields(t)[i])
    THEN fieldLoop(m, t, i + 1, cleans, dryRun)
    ELSE fieldNext(IF m.api = 2 /\ WireFields(t)[i].transient
                   THEN Failed(m, ErrProviderNotFound)
                   ELSE IF WireFields(t)[i].tag = ""
                        THEN getByType(m, WireFields(t)[i].typ,
                                       m.api = 1 /\ WireFields(t)[i].transient, dryRun)
                        ELSE getByName(m, WireFields(t)[i].tag,
                                       m.api = 1 /\ WireFields(t)[i].transient, dryRun),
                   t, i, cleans, dryRun)

\* return c, err after AfterWire: c captures cleans and the hook's clean; m
\* has the hook's Clean, if any, allocated last
hookReturn(m, cleans, hasClean, err) ==
    Res(Alloc(m, Closure("afterwire", cleans, IF hasClean THEN Len(m.heap) ELSE NilClean,
                         NilClean, NoKey, Nil)),
        Nil, NewId(m), err)

\* clean, err := aw.AfterWire(); the deferred cleanDeps runs when err != nil
\* and leaves c with no cleans
hookCalled(m, t, cleans) ==
    IF AfterWireOf(t).err # NoErr
    THEN hookReturn(InvokeAll(m, cleans), <<>>, AfterWireOf(t).clean, AfterWireOf(t).err)
    ELSE hookReturn(m, cleans, AfterWireOf(t).clean, NoErr)

\* the hook of t runs and hands back its Clean
hookCall(m, t, inst) ==
    IF AfterWireOf(t).clean
    THEN Alloc(Emit(m, Event("AfterWire", inst, <<>>, t, 0)),
               Closure("hook", <<>>, NilClean, NilClean, NoKey, inst))
    ELSE Emit(m, Event("AfterWire", inst, <<>>, t, 0))

\* wireFields calling the hook although a field failed to resolve
wireHookDespiteFailure(l, t) ==
    IF AfterWireOf(t).has
    THEN hookCalled(hookCall([l.m EXCEPT !.calls[t] = @ + 1], t,
                             Instance(t, l.m.calls[t] + 1, t)),
                    t, l.cleans)
    ELSE Res(Alloc(l.m, Closure("cleanDeps", l.cleans, NilClean, NilClean, NoKey, Nil)),
             Nil, NewId(l.m), NoErr)

\* wireFields, once the loop over the fields has returned l
wireHook(l, t) ==
    IF l.err # NoErr
    THEN \* deferred: if err != nil { cleanDeps() }
         Failed(InvokeAll(l.m, l.cleans), l.err)
    ELSE IF AfterWireOf(t).has
    THEN hookCalled(hookCall([l.m EXCEPT !.calls[t] = @ + 1], t,
                             Instance(t, l.m.calls[t] + 1, t)),
                    t, l.cleans)
    ELSE Res(Alloc(l.m, Closure("cleanDeps", l.cleans, NilClean, NilClean, NoKey, Nil)),
             Nil, NewId(l.m), NoErr)

wireFields(m, t, dryRun) ==
    wireHook(fieldLoop(m, t, 1, <<>>, dryRun), t)

(***************************************************************************)
(* Unreachable closures are garbage: the heap keeps the closures reachable *)
(* from an injector's clean or from a Clean the caller holds, renumbered   *)
(* in allocation order.                                                    *)
(***************************************************************************)
Refs(h) == (Range(h.cleans) \cup {h.c1, h.c2}) \ {NilClean}

RECURSIVE Reach(_, _)
Reach(hp, S) ==
    LET T == S \cup UNION {Refs(hp[i]) : i \in S}
    IN  IF T = S THEN S ELSE Reach(hp, T)

Rank(L, c) == IF c = NilClean THEN NilClean ELSE Cardinality({j \in L : j <= c})

Roots(m, keep) ==
    ({m.named[n].clean : n \in Names} \cup {m.typed[t].clean : t \in Types} \cup keep)
        \ {NilClean}

Collect(m, keep) ==
    LET L == Reach(m.heap, Roots(m, keep))
        at(k) == CHOOSE i \in L : Rank(L, i) = k
        ren(h) == [h EXCEPT !.cleans = [j \in DOMAIN h.cleans |-> Rank(L, h.cleans[j])],
                            !.c1 = Rank(L, @), !.c2 = Rank(L, @)]
    IN  [m EXCEPT
            !.heap  = [k \in 1..Cardinality(L) |-> ren(m.heap[at(k)])],
            !.named = [n \in Names |-> [m.named[n] EXCEPT !.clean = Rank(L, @)]],
            !.typed = [t \in Types |-> [m.typed[t] EXCEPT !.clean = Rank(L, @)]]]

\* the instances whose own cleanup callback has run k times or more by the
\* end of log
Cleaned(log, k) ==
    {log[j].inst : j \in {x \in DOMAIN log : log[x].e = "clean" /\ log[x].i >= k}}

RECURSIVE Sum(_, _)
Sum(f, S) == IF S = {} THEN 0
             ELSE LET x == CHOOSE y \in S : TRUE IN f[x] + Sum(f, S \ {x})

\* the caller's view of a finished call
Call(op, arg, dryRun, r) ==
    [op |-> op, arg |-> arg, dryRun |-> dryRun, err |-> r.err, v |-> r.v,
     clean |-> r.c # NilClean, log |-> r.m.log]

\* the caller is between two calls
Idle == [op |-> "idle", arg |-> "", dryRun |-> FALSE, err |-> NoErr, v |-> Nil,
         clean |-> FALSE, log |-> <<>>]

\* the state after a call that ran the machine to m; keep are the Clean
\* values the caller holds afterwards
Commit(m, keep, call) ==
    /\ last = Idle
    /\ Sum(m.calls, DOMAIN m.calls) <= MaxInst
    /\ namedInjectors' = Collect(m, keep).named
    /\ typeInjectors' = Collect(m, keep).typed
    /\ heap' = Collect(m, keep).heap
    /\ calls' = m.calls
    /\ cleanedTwice' = cleanedTwice \cup Cleaned(m.log, 2)
    /\ held' = {Rank(Reach(m.heap, Roots(m, keep)), c) : c \in keep}
    /\ last' = call
    /\ UNCHANGED api

\* api 1 hands the Clean to the caller, who keeps it or drops it
Keeps(r) ==
    IF api = 1 /\ r.c # NilClean /\ (r.c \in held \/ Cardinality(held) < MaxHeld)
    THEN {held, held \cup {r.c}}
    ELSE {held}

\* the call op(arg) returns r to the caller
\* a call that exhausts the stack does not return: the process ends where
\* it stands
Crash(op, arg, dryRun) ==
    /\ last = Idle
    /\ last' = [Idle EXCEPT !.op = op, !.arg = arg, !.dryRun = dryRun,
                            !.err = StackOverflow]
    /\ UNCHANGED <<api, namedInjectors, typeInjectors, heap, calls, cleanedTwice, held>>

Returns(r, op, arg, dryRun) ==
    IF r.err = StackOverflow
    THEN Crash(op, arg, dryRun)
    ELSE \E keep \in Keeps(r) : Commit(r.m, keep, Call(op, arg, dryRun, r))

(***************************************************************************)
(* The public API.                                                         *)
(***************************************************************************)
Init ==
    /\ api = 2
    /\ namedInjectors = [n \in Names |-> NoInjector]
    /\ typeInjectors = [t \in Types |-> NoInjector]
    /\ heap = <<>>
    /\ calls = [p \in ProviderIds \cup {t \in WireStructs : AfterWireOf(t).has} |-> 0]
    /\ cleanedTwice = {}
    /\ held = {}
    /\ last = Idle

\* validateProviderFunc(t), res being the result types of t
validateProviderFunc(res) ==
    IF Len(res) < 1 /\ Len(res) > 3 THEN errInvalidProviderFunc
    ELSE IF Len(res) = 3
         THEN IF res[3] # "error" THEN errInvalidProviderFunc
              ELSE IF res[2] # "clean" THEN errInvalidProviderFunc
              ELSE NoErr
    ELSE IF Len(res) = 2
         THEN IF res[2] \notin {"clean", "error"} THEN errInvalidProviderFunc ELSE NoErr
    ELSE NoErr

\* the key namedProvider registers the provider p under
KeyOf(p) ==
    IF Catalog[p].name # "" THEN NamedKey(Catalog[p].name) ELSE TypeKey(Catalog[p].out)

\* namedProvider that replaces the injector of an occupied key before it
\* reports ErrProviderAlreadyExists
namedProviderOverwriting(m, p, transient) ==
    IF Catalog[p].isFunc /\ validateProviderFunc(Results(p)) # NoErr
    THEN Failed(m, validateProviderFunc(Results(p)))
    ELSE IF Catalog[p].isFunc /\ Len(Results(p)) = 0
    THEN Failed(m, Panic)
    ELSE Failed(SetInj(m, KeyOf(p), [provider |-> p, instance |-> Nil, clean |-> NilClean,
                                     transient |-> transient]),
                IF Registered(InjAt(m, KeyOf(p))) THEN ErrProviderAlreadyExists ELSE NoErr)

\* namedProvider(name, provider, transient): tn = t.Out(0) panics for a
\* function without results
namedProvider(m, p, transient) ==
    IF Catalog[p].isFunc /\ validateProviderFunc(Results(p)) # NoErr
    THEN Failed(m, validateProviderFunc(Results(p)))
    ELSE IF Catalog[p].isFunc /\ Len(Results(p)) = 0
    THEN Failed(m, Panic)
    ELSE IF Registered(InjAt(m, KeyOf(p)))
    THEN Failed(m, ErrProviderAlreadyExists)
    ELSE Failed(SetInj(m, KeyOf(p), [provider |-> p, instance |-> Nil, clean |-> NilClean,
                                     transient |-> transient]),
                NoErr)

RECURSIVE registerAll(_, _, _)
\* for _, v := range providers { err := namedProvider(...); if err != nil { return err } }
registerAll(m, ps, transient) ==
    IF ps = <<>> THEN Failed(m, NoErr)
    ELSE LET r == namedProvider(m, Head(ps), transient)
         IN  IF r.err # NoErr THEN r ELSE registerAll(r.m, Tail(ps), transient)

\* Providers(providers...)
Providers(ps) ==
    Returns(registerAll(Machine, ps, FALSE), "Providers", ps, FALSE)

\* TransientProviders(providers...)
TransientProviders(ps) ==
    Returns(registerAll(Machine, ps, TRUE), "TransientProviders", ps, FALSE)

\* NamedProviders(providers): range visits the map in the order ps
NamedProviders(ps) ==
    Returns(registerAll(Machine, ps, FALSE), "NamedProviders", ps, FALSE)

\* Resolve(name)
Resolve(name) ==
    Returns(getByName(Machine, name, FALSE, FALSE), "Resolve", name, FALSE)

\* GetByType(zero)
GetByType(t) ==
    Returns(getByType(Machine, t, FALSE, FALSE), "GetByType", t, FALSE)

\* what wire hands to Wire and DryRun: api 2 returns the error only, api 1
\* returns the Clean of wireFields and a nil Clean for a function
wireReturn(r, isFunc) ==
    Res(r.m, Nil, IF r.m.api = 1 /\ ~isFunc THEN r.c ELSE NilClean, r.err)

\* _, ok := t.Out(0).(error): t.Out(0) is a reflect.Type, and no
\* reflect.Type has an Error method
AssertsAsError(t) == FALSE

\* wire without validateWireFunc
validateWireFuncSkipped(in, out) == NoErr
\* validateWireFunc(t), in and out being the parameter and result types of t
validateWireFunc(in, out) ==
    IF Len(in) = 0 THEN errInvalidWireFunc
    ELSE IF Len(out) > 1 THEN errInvalidWireFunc
    ELSE IF Len(out) = 1 /\ ~AssertsAsError(out[1]) THEN errInvalidWireFunc
    ELSE NoErr

\* wire(value, dryRun)
wire(m, target, dryRun) ==
    IF target \in DOMAIN WireFuncs
    THEN IF validateWireFunc(WireFuncs[target].in, WireFuncs[target].out) # NoErr
         THEN Failed(m, validateWireFunc(WireFuncs[target].in, WireFuncs[target].out))
         ELSE wireReturn(funcInjection(m, WireFunc(target), dryRun), TRUE)
    ELSE wireReturn(wireFields(m, target, dryRun), FALSE)

\* the orders in which a call on target may see range visit
\* di.namedInjectors: a target without a map[Named]T parameter does not
\* range (no provider of the catalog takes such a parameter)
RangeOrders(target) ==
    IF /\ target \in DOMAIN WireFuncs
       /\ \E i \in DOMAIN WireFuncs[target].in : Kind(WireFuncs[target].in[i]) = "map"
    THEN Perms({n \in Names : Registered(namedInjectors[n])})
    ELSE {<<>>}

\* Wire(value)
Wire(target) ==
    \E ord \in RangeOrders(target) :
        Returns(wire(Ranging(Machine, ord), target, FALSE), "Wire", target, FALSE)

\* DryRun(value)
DryRun(target) ==
    \E ord \in RangeOrders(target) :
        Returns(wire(Ranging(Machine, ord), target, TRUE), "DryRun", target, TRUE)

\* the caller invokes a Clean it was handed: "again" when that closure has
\* already let go of everything it captured
CallClean(c) ==
    /\ c \in held
    /\ Commit(Invoke(Machine, c), held,
              Call("Clean", IF Refs(heap[c]) = {} THEN "again" ELSE "first", FALSE,
                   Failed(Invoke(Machine, c), NoErr)))

RECURSIVE destroyLoop(_, _)
\* for _, inj := range injectors { if inj.clean != nil { ... } }
destroyLoop(m, keys) ==
    IF keys = <<>> THEN m
    ELSE IF InjAt(m, Head(keys)).clean # NilClean
         THEN destroyLoop(Evict(Invoke(m, InjAt(m, Head(keys)).clean), Head(keys)),
                          Tail(keys))
         ELSE destroyLoop(m, Tail(keys))

\* the body of Destroy(): ordN and ordT are the orders in which range visits
\* the two maps
\* Destroy without di.namedInjectors = map[string]*injector{}
resetNamedSkipped(m) == m
\* di.namedInjectors = map[string]*injector{}
resetNamed(m) == [m EXCEPT !.named = [n \in Names |-> NoInjector]]
\* di.typeInjectors = map[reflect.Type]*injector{}
resetTyped(m) == [m EXCEPT !.typed = [t \in Types |-> NoInjector]]

destroy(m, ordN, ordT) ==
    resetTyped(destroyLoop(resetNamed(destroyLoop(m, [i \in DOMAIN ordN |-> NamedKey(ordN[i])])),
                           [i \in DOMAIN ordT |-> TypeKey(ordT[i])]))

\* what Destroy leaves: the container and what the cleanups it ran observed
Destroyed(m) ==
    /\ namedInjectors' = m.named
    /\ typeInjectors' = m.typed
    /\ heap' = <<>>
    /\ calls' = [p \in DOMAIN calls |-> 0]
    /\ cleanedTwice' = {}
    /\ last' = Call("Destroy", "", FALSE, Failed(m, NoErr))
    /\ UNCHANGED <<api, held>>

\* Destroy()
Destroy ==
    /\ api = 2
    /\ last = Idle
    /\ \E ordN \in Perms({n \in Names : namedInjectors[n].clean # NilClean}) :
       \E ordT \in Perms({t \in Types : typeInjectors[t].clean # NilClean}) :
          Destroyed(destroy(Machine, ordN, ordT))

\* the caller takes the result of the call and goes on
Return ==
    /\ last # Idle
    /\ last.err # StackOverflow
    /\ last' = Idle
    /\ UNCHANGED <<api, namedInjectors, typeInjectors, heap, calls, cleanedTwice, held>>

Next ==
    \/ \E ps \in TypeBatches : Providers(ps)
    \/ \E ps \in UNION {Perms(b) : b \in NamedBatches} : NamedProviders(ps)
    \/ \E name \in ResolveArgs : Resolve(name)
    \/ \E t \in ByTypeArgs : GetByType(t)
    \/ \E target \in WireArgs : Wire(target)
    \/ \E target \in WireArgs : DryRun(target)
    \/ Destroy
    \/ Return

\* the container with Destroy and no Clean handed to the caller
Spec == Init /\ [][Next]_vars

InitV1 ==
    /\ api = 1
    /\ namedInjectors = [n \in Names |-> NoInjector]
    /\ typeInjectors = [t \in Types |-> NoInjector]
    /\ heap = <<>>
    /\ calls = [p \in ProviderIds \cup {t \in WireStructs : AfterWireOf(t).has} |-> 0]
    /\ cleanedTwice = {}
    /\ held = {}
    /\ last = Idle

NextV1 ==
    \/ \E ps \in TypeBatchesV1 : Providers(ps)
    \/ \E ps \in UNION {Perms(b) : b \in NamedBatches} : NamedProviders(ps)
    \/ \E name \in ResolveArgsV1 : Resolve(name)
    \/ \E t \in ByTypeArgsV1 : GetByType(t)
    \/ \E target \in WireArgsV1 : Wire(target)
    \/ \E target \in DryRunArgsV1 : DryRun(target)
    \/ \E c \in held : CallClean(c)
    \/ Return

\* the container that hands the composed Clean to the caller
SpecV1 == InitV1 /\ [][NextV1]_vars

NextReg ==
    \/ \E ps \in TypeBatchesReg : Providers(ps)
    \/ \E ps \in TransientBatchesReg : TransientProviders(ps)
    \/ \E ps \in UNION {Perms(b) : b \in NamedBatchesReg} : NamedProviders(ps)
    \/ \E name \in ResolveArgsReg : Resolve(name)
    \/ \E t \in ByTypeArgsReg : GetByType(t)
    \/ \E target \in WireArgsReg : Wire(target)
    \/ \E target \in WireArgsReg : DryRun(target)
    \/ Destroy
    \/ Return

\* the container under the registration forms, malformed provider and wire
\* functions, interface lookup and transient providers
SpecReg == Init /\ [][NextReg]_vars

NextTransient ==
    \/ \E ps \in TypeBatchesTransient : Providers(ps)
    \/ \E t \in ByTypeArgsTransient : GetByType(t)
    \/ \E target \in WireArgsTransient : Wire(target)
    \/ \E c \in held : CallClean(c)
    \/ Return

\* the container that hands out Clean values, wiring a field tagged transient
SpecTransient == InitV1 /\ [][NextTransient]_vars

NextNil ==
    \/ \E ps \in TypeBatchesNil : Providers(ps)
    \/ \E ps \in UNION {Perms(b) : b \in NamedBatchesNil} : NamedProviders(ps)
    \/ \E name \in ResolveArgsNil : Resolve(name)
    \/ \E t \in ByTypeArgsNil : GetByType(t)
    \/ \E target \in WireArgsNil : Wire(target)
    \/ \E target \in WireArgsNil : DryRun(target)
    \/ Destroy
    \/ Return

\* the container with a factory whose product is a nil interface
SpecNil == Init /\ [][NextNil]_vars

NextCycle ==
    \/ \E ps \in TypeBatchesCycle : Providers(ps)
    \/ \E ps \in UNION {Perms(b) : b \in NamedBatchesCycle} : NamedProviders(ps)
    \/ \E name \in ResolveArgsCycle : Resolve(name)
    \/ \E t \in ByTypeArgsCycle : GetByType(t)
    \/ \E target \in WireArgsCycle : Wire(target)
    \/ \E target \in WireArgsCycle : DryRun(target)
    \/ Destroy
    \/ Return

\* the container with factories that depend on each other
SpecCycle == Init /\ [][NextCycle]_vars

NextTeardown ==
    \/ \E ps \in TypeBatchesTeardown : Providers(ps)
    \/ \E ps \in TransientBatchesTeardown : TransientProviders(ps)
    \/ \E ps \in UNION {Perms(b) : b \in NamedBatchesTeardown} : NamedProviders(ps)
    \/ \E name \in ResolveArgsTeardown : Resolve(name)
    \/ \E t \in ByTypeArgsTeardown : GetByType(t)
    \/ \E target \in WireArgsTeardown : Wire(target)
    \/ Destroy
    \/ Return

\* the container torn down after transient instances and hooked targets
SpecTeardown == Init /\ [][NextTeardown]_vars

NextGraph ==
    \/ \E ps \in TypeBatchesGraph : Providers(ps)
    \/ \E ps \in UNION {Perms(b) : b \in NamedBatchesGraph} : NamedProviders(ps)
    \/ \E name \in ResolveArgsGraph : Resolve(name)
    \/ \E t \in ByTypeArgsGraph : GetByType(t)
    \/ \E target \in WireArgsGraph : Wire(target)
    \/ \E target \in WireArgsGraph : DryRun(target)
    \/ Destroy
    \/ Return

\* the container walking dependency graphs in which a producer fails
SpecGraph == Init /\ [][NextGraph]_vars

NextMap ==
    \/ \E ps \in TypeBatchesMap : Providers(ps)
    \/ \E ps \in UNION {Perms(b) : b \in NamedBatchesMap} : NamedProviders(ps)
    \/ \E name \in ResolveArgsMap : Resolve(name)
    \/ \E t \in ByTypeArgsMap : GetByType(t)
    \/ \E target \in WireArgsMap : Wire(target)
    \/ \E target \in WireArgsMap : DryRun(target)
    \/ Destroy
    \/ Return

\* the container wiring functions that take a map[Named]T
SpecMap == Init /\ [][NextMap]_vars

NextStruct ==
    \/ \E ps \in TypeBatchesStruct : Providers(ps)
    \/ \E ps \in UNION {Perms(b) : b \in NamedBatchesStruct} : NamedProviders(ps)
    \/ \E name \in ResolveArgsStruct : Resolve(name)
    \/ \E t \in ByTypeArgsStruct : GetByType(t)
    \/ \E target \in WireArgsStruct : Wire(target)
    \/ \E target \in WireArgsStruct : DryRun(target)
    \/ Destroy
    \/ Return

\* the container wiring a struct of which some fields carry no wire tag
SpecStruct == Init /\ [][NextStruct]_vars

(***************************************************************************)
(* What the caller and the user code observe, for the properties below.    *)
(***************************************************************************)
\* the operations that resolve and wire for real
RealOps == {"Resolve", "GetByType", "Wire"}

\* the providers registered as non-transient factory functions
Singletons == {p \in ProviderIds : Catalog[p].isFunc /\ ~Catalog[p].transient}

\* the instances a call handed out: its result, the fields it set and the
\* arguments it passed to a producer body or to the wired function
Delivered(call) ==
    {call.v} \cup {call.log[i].inst : i \in {j \in DOMAIN call.log : call.log[j].e = "set"}}
             \cup UNION {Range(call.log[i].argv) :
                            i \in {j \in DOMAIN call.log : call.log[j].e = "call"}}

\* how many events of kind e about the instance inst the log holds
Count(log, e, inst) ==
    Cardinality({i \in DOMAIN log : log[i].e = e /\ log[i].inst = inst})

(***************************************************************************)
(* C1.  Between its registration and the next Destroy, every successful    *)
(* non-transient, non-dry-run resolution of a factory-function singleton   *)
(* (the result of Resolve or GetByType, a wired field, a function          *)
(* parameter) hands out the same instance, and the producer body has run   *)
(* exactly once: the instance handed out is the one of the first           *)
(* invocation and the invocation counter stands at one.                    *)
(***************************************************************************)
C1_SingletonCreatedOnce ==
    (last.op \in RealOps /\ last.err = NoErr) =>
        \A inst \in Delivered(last) :
            inst.p \in Singletons => (inst.n = 1 /\ calls[inst.p] = 1)

\* the injectors of the container
Injectors == {namedInjectors[n] : n \in Names} \cup {typeInjectors[t] : t \in Types}

\* nothing is registered: both maps of the container are empty
NothingRegistered ==
    /\ \A n \in Names : namedInjectors[n] = NoInjector
    /\ \A t \in Types : typeInjectors[t] = NoInjector

CachedWithCleanup ==
    {inj.instance : inj \in {x \in Injectors : /\ Registered(x)
                                               /\ x.instance # Nil
                                               /\ Catalog[x.provider].clean}}

(***************************************************************************)
(* C3.  Destroy invokes the cleanup of every singleton instance that is    *)
(* cached when it is called exactly once, whatever happened before and in  *)
(* whatever order the maps are visited, and a Destroy of a container that  *)
(* caches nothing invokes no cleanup.                                      *)
(***************************************************************************)
C3_DestroyCleansEachCachedOnce ==
    [][last'.op = "Destroy" =>
          /\ \A inst \in CachedWithCleanup : Count(last'.log, "clean", inst) = 1
          /\ CachedWithCleanup = {} => last'.log = <<>>]_vars

\* the singleton producers whose body succeeds and whose product needs no
\* wiring: once the body has run, the resolution that ran it has succeeded
Producers ==
    {p \in Singletons : /\ Catalog[p].err = NoErr
                        /\ WireFields(Catalog[p].out) = <<>>
                        /\ ~AfterWireOf(Catalog[p].out).has}

(***************************************************************************)
(* C4.  The invocation counter of a singleton producer is unchanged by     *)
(* every DryRun, rises to exactly one on the first Wire that resolves the  *)
(* producer, and is unchanged by every later Wire.                         *)
(***************************************************************************)
C4_BodyRunsOnFirstWireOnly ==
    [][\A p \in Producers :
          /\ last'.op = "DryRun" => calls'[p] = calls[p]
          /\ (last'.op = "Wire" /\ calls[p] = 0) =>
                 /\ calls'[p] <= 1
                 /\ (\E inst \in Delivered(last') : inst.p = p) => calls'[p] = 1
          /\ (last'.op = "Wire" /\ calls[p] > 0) => calls'[p] = calls[p]]_vars

\* the kinds of event in which user code runs: a producer body or the wired
\* function, an AfterWire hook, a cleanup callback
UserCode == {"call", "AfterWire", "clean"}

(***************************************************************************)
(* C5.  A DryRun runs no user code: no producer body, not the target       *)
(* function, and no AfterWire hook, neither of the target nor of an        *)
(* instance reached while walking the graph.                               *)
(***************************************************************************)
C5_DryRunRunsNoUserCode ==
    last.op = "DryRun" => \A i \in DOMAIN last.log : last.log[i].e \notin UserCode

\* the errors that come from the shape of the graph, not from user code
StructuralErrors == {ErrProviderNotFound, ErrMultipleProvidersFound}

\* the dry run d reports the structural error of the real wiring w
SameStructuralError(w, d) == w.err \in StructuralErrors => d.err = w.err

(***************************************************************************)
(* C6.  In every state of the container and for every target: when Wire    *)
(* of the target would fail with a structural error (a missing provider,   *)
(* an ambiguous interface) at any depth of the graph, DryRun of the target *)
(* from the same state fails with the same error.                          *)
(***************************************************************************)
C6_DryRunFindsStructuralErrors ==
    \A target \in WireArgs :
        SameStructuralError(wire(Machine, target, FALSE), wire(Machine, target, TRUE))

Reverse(s) == [i \in 1..Len(s) |-> s[Len(s) + 1 - i]]

\* the machine in which every composed cleanup holds the cleanups of its
\* siblings in the reverse of the order in which they were acquired
ReverseAcquired(m) ==
    [m EXCEPT !.heap = [i \in DOMAIN m.heap |->
                            [m.heap[i] EXCEPT !.cleans = Reverse(m.heap[i].cleans)]]]

(***************************************************************************)
(* C7.  When the caller fires a composed cleanup, the cleanups of the      *)
(* sibling dependencies (struct fields in declaration order, function      *)
(* parameters left to right) run in the reverse of the order in which the  *)
(* call acquired them: what the cleanup callbacks observe is what running  *)
(* the siblings last to first produces.                                    *)
(***************************************************************************)
C7_SiblingsCleanedInReverse ==
    [][last'.op = "Clean" =>
          \E c \in held : last'.log = Invoke(ReverseAcquired(Machine), c).log]_vars

(***************************************************************************)
(* C8.  However often the caller invokes the composed cleanups it was      *)
(* handed (the same one again, or the ones of two resolutions that share   *)
(* a singleton), every cleanup callback of a producer or of an AfterWire   *)
(* hook runs at most once.                                                 *)
(***************************************************************************)
C8_CallbacksRunAtMostOnce ==
    /\ cleanedTwice = {}
    /\ \A i \in DOMAIN last.log : last.log[i].e = "clean" => last.log[i].i = 1

\* the caller has invoked again a composed cleanup that had already run, after
\* callbacks had run, and no callback ran
C8_Witness ==
    /\ last.op = "Clean"
    /\ last.arg = "again"
    /\ last.log = <<>>
    /\ \E p \in ProviderIds : Catalog[p].clean /\ calls[p] > 0

\* the positions of log at which the body of a producer ran, succeeded and
\* handed out a cleanup together with the instance
Created(log) ==
    {i \in DOMAIN log : /\ log[i].e = "call"
                        /\ log[i].inst.p \in ProviderIds
                        /\ Catalog[log[i].inst.p].clean
                        /\ Catalog[log[i].inst.p].err = NoErr}

(***************************************************************************)
(* C9.  When Resolve, GetByType or Wire returns an error, the cleanup of   *)
(* every instance that was freshly created during that call, at any depth, *)
(* has been invoked exactly once.                                          *)
(***************************************************************************)
C9_FailedCallCleansWhatItCreated ==
    (last.op \in RealOps /\ last.err # NoErr) =>
        \A i \in Created(last.log) : Count(last.log, "clean", last.log[i].inst) = 1

\* the wiring of the fields of the instance created at position i of log did
\* not get to its last field
FieldsFailed(log, i) ==
    /\ WireFields(log[i].inst.t) # <<>>
    /\ ~\E j \in DOMAIN log : /\ j > i
                              /\ log[j].e = "set"
                              /\ log[j].t = log[i].inst.t
                              /\ log[j].i = Len(WireFields(log[i].inst.t))

(***************************************************************************)
(* C10.  When a producer has returned an instance with its cleanup and the *)
(* wiring of the fields of that instance then fails, the producer's own    *)
(* cleanup has been invoked when the error is returned.                    *)
(***************************************************************************)
C10_ProducerCleanedWhenFieldsFail ==
    (last.op \in RealOps /\ last.err # NoErr) =>
        \A i \in Created(last.log) :
            FieldsFailed(last.log, i) =>
                \E j \in DOMAIN last.log : /\ j > i
                                           /\ last.log[j].e = "clean"
                                           /\ last.log[j].inst = last.log[i].inst

\* the instances of factory-function singletons the container has cached
Cached ==
    {inj.instance : inj \in {x \in Injectors : /\ Registered(x)
                                               /\ x.instance # Nil
                                               /\ x.provider \in Singletons}}

(***************************************************************************)
(* C11.  A Resolve, GetByType or Wire that fails leaves every singleton    *)
(* that was cached when the call began untouched: the instance a factory   *)
(* function produced is still cached under its key when the call has       *)
(* returned, and the call has not invoked its cleanup.                     *)
(***************************************************************************)
C11_FailedCallKeepsCached ==
    [][(last'.op \in RealOps /\ last'.err # NoErr) =>
          /\ \A n \in Names : namedInjectors[n].instance \in Cached =>
                 namedInjectors'[n].instance = namedInjectors[n].instance
          /\ \A t \in Types : typeInjectors[t].instance \in Cached =>
                 typeInjectors'[t].instance = typeInjectors[t].instance
          /\ \A inst \in Cached : Count(last'.log, "clean", inst) = 0]_vars

\* the produced types registered by type (unnamed) that satisfy the interface i
TypeKeyed(i) ==
    {t \in Types : /\ Registered(typeInjectors[t])
                   /\ Implements(Catalog[typeInjectors[t].provider].out, i)}

\* the call passed the instance inst, of the dynamic type t, to the function f
PassedTo(call, f, t, inst) ==
    /\ inst.t = t
    /\ \E i \in DOMAIN call.log : /\ call.log[i].e = "call"
                                  /\ call.log[i].inst.p = f
                                  /\ call.log[i].argv = <<inst>>

TransientCachesNothing ==
    \A inj \in Injectors : inj.transient => (inj.instance = Nil /\ inj.clean = NilClean)

\* the instance the body of the producer p returned when it ran for the
\* n-th time
Product(p, n) == Instance(p, n, Catalog[p].dyn)

(***************************************************************************)
(* C14.  Every resolution of the transient descriptor of *Ticket (by       *)
(* GetByType, or as the parameter of a function handed to Wire) invokes    *)
(* its producer once more and hands out the instance that invocation       *)
(* returned, which no earlier resolution handed out; and in every state    *)
(* no transient descriptor caches an instance or a cleanup.                *)
(***************************************************************************)
C14_TransientAlwaysFresh ==
    [][/\ TransientCachesNothing
       /\ TransientCachesNothing'
       /\ (/\ typeInjectors["*Ticket"].transient
           /\ last'.op = "GetByType"
           /\ last'.arg = "*Ticket") =>
              /\ last'.err = NoErr
              /\ calls'["NewTicket"] = calls["NewTicket"] + 1
              /\ last'.v = Product("NewTicket", calls'["NewTicket"])
              /\ Count(last'.log, "call", last'.v) = 1
       /\ (/\ typeInjectors["*Ticket"].transient
           /\ last'.op = "Wire"
           /\ last'.arg = "fnTicket") =>
              /\ last'.err = NoErr
              /\ calls'["NewTicket"] = calls["NewTicket"] + 1
              /\ PassedTo(last', "fnTicket", "*Ticket",
                          Product("NewTicket", calls'["NewTicket"]))]_vars

\* the transient descriptor has been resolved for the third time
C14_Witness ==
    /\ typeInjectors["*Ticket"].transient
    /\ last.op = "GetByType"
    /\ last.arg = "*Ticket"
    /\ last.v = Product("NewTicket", 3)

\* the key a Resolve or GetByType call asked for
Asked(call) == IF call.op = "Resolve" THEN NamedKey(call.arg) ELSE TypeKey(call.arg)

\* the injector registered under key in the maps named and typed
InjectorOf(named, typed, key) ==
    IF key.ns = "name"
    THEN IF key.id \in Names THEN named[key.id] ELSE NoInjector
    ELSE IF key.id \in Types THEN typed[key.id] ELSE NoInjector

(***************************************************************************)
(* C15.  A Resolve or GetByType of a registered factory-function singleton *)
(* that fails caches nothing for that descriptor.  A resolution that finds *)
(* nothing cached executes the producer: when the producer itself reports  *)
(* the error, its body has run once more in that attempt, and when the     *)
(* attempt succeeds the body has run in it and the instance it returned is *)
(* cached and returned.                                                    *)
(***************************************************************************)
C15_FailureIsNotCached ==
    [][(/\ last'.op \in {"Resolve", "GetByType"}
        /\ InjectorOf(namedInjectors, typeInjectors, Asked(last')).provider \in Singletons) =>
          LET before == InjectorOf(namedInjectors, typeInjectors, Asked(last'))
              after  == InjectorOf(namedInjectors', typeInjectors', Asked(last'))
          IN  /\ last'.err # NoErr =>
                     /\ before.instance = Nil
                     /\ after.instance = Nil
                     /\ after.clean = NilClean
              /\ (last'.err # NoErr /\ last'.err = Catalog[before.provider].err) =>
                     calls'[before.provider] = calls[before.provider] + 1
              /\ (before.instance = Nil /\ last'.err = NoErr) =>
                     /\ calls'[before.provider] = calls[before.provider] + 1
                     /\ last'.v = Product(before.provider, calls'[before.provider])
                     /\ Count(last'.log, "call", last'.v) = 1
                     /\ after.instance = last'.v]_vars

\* the resolution has failed for the second time: the producer ran again and
\* reported its error again, and nothing is cached
C15_Witness ==
    /\ last.op = "Resolve"
    /\ last.arg = "grumpy"
    /\ last.err = errGrumpy
    /\ calls["NewGrumpyEvent"] = 2
    /\ namedInjectors["grumpy"].instance = Nil

\* the registration calls
RegisterOps == {"Providers", "TransientProviders", "NamedProviders"}

\* the result shapes the documentation allows for a provider function:
\* (Value), (Value, Error), (Value, Cleanup), (Value, Cleanup, Error)
ValidShapes ==
    {<<"value">>, <<"value", "error">>, <<"value", "clean">>, <<"value", "clean", "error">>}

\* the provider p is a value or a function of a valid shape
WellFormed(p) == Catalog[p].isFunc => Results(p) \in ValidShapes

(***************************************************************************)
(* C16.  Registering a well-formed provider under an occupied key (its     *)
(* name, or for an unnamed provider its produced type) fails with          *)
(* ErrProviderAlreadyExists and leaves both maps of the container, with    *)
(* every cached instance and every cleanup, exactly as they were: the      *)
(* original registration resolves to the same instance as before.          *)
(***************************************************************************)
C16_OccupiedKeyIsRefused ==
    [][(/\ last'.op \in RegisterOps
        /\ WellFormed(Head(last'.arg))
        /\ Registered(InjectorOf(namedInjectors, typeInjectors, KeyOf(Head(last'.arg))))) =>
          /\ last'.err = ErrProviderAlreadyExists
          /\ namedInjectors' = namedInjectors
          /\ typeInjectors' = typeInjectors
          /\ heap' = heap
          /\ \A t \in ByTypeArgsReg :
                 getByType(Machine, t, FALSE, FALSE).v =
                     getByType([Machine EXCEPT !.named = namedInjectors',
                                               !.typed = typeInjectors'],
                               t, FALSE, FALSE).v]_vars

\* the type of a cached singleton was registered again and the call failed
C16_Witness ==
    /\ last.op = "Providers"
    /\ last.arg = <<"NewGreeter">>
    /\ last.err = ErrProviderAlreadyExists
    /\ typeInjectors["*GreeterImpl"].instance = Product("NewGreeter", 1)

(***************************************************************************)
(* C17.  A registration call that returns an error, the bulk forms         *)
(* Providers, TransientProviders and NamedProviders included, leaves both  *)
(* maps of the container exactly as they were before the call: none of the *)
(* providers passed to the failing call is registered by it.               *)
(***************************************************************************)
C17_FailedRegistrationChangesNothing ==
    [][(last'.op \in RegisterOps /\ last'.err # NoErr) =>
          /\ namedInjectors' = namedInjectors
          /\ typeInjectors' = typeInjectors]_vars

(***************************************************************************)
(* C18.  Registering a factory function whose results are not (Value),     *)
(* (Value, Error), (Value, Cleanup) or (Value, Cleanup, Error) returns an  *)
(* error from the registration call and inserts nothing, so that no        *)
(* injector of the container ever holds a malformed factory.               *)
(***************************************************************************)
C18_MalformedFactoryIsRefused ==
    [][/\ (last'.op \in RegisterOps /\ ~WellFormed(Head(last'.arg))) =>
              /\ last'.err \notin {NoErr, Panic}
              /\ namedInjectors' = namedInjectors
              /\ typeInjectors' = typeInjectors
       /\ \A inj \in Injectors' : Registered(inj) => WellFormed(inj.provider)]_vars

(***************************************************************************)
(* C19.  Wire accepts a function that takes a resolvable parameter and     *)
(* returns a single error: the function is called exactly once with the    *)
(* resolved argument, and Wire returns the error the function returned     *)
(* (nil when it returned nil).                                             *)
(***************************************************************************)
C19_WireReturnsTheFunctionsError ==
    [][(/\ last'.op = "Wire"
        /\ last'.arg \in {"fnReturnsNil", "fnReturnsError"}
        /\ Cardinality(TypeKeyed("Greeter")) = 1) =>
          /\ \A t \in TypeKeyed("Greeter") :
                 PassedTo(last', last'.arg, t, typeInjectors'[t].instance)
          /\ Cardinality({i \in DOMAIN last'.log : /\ last'.log[i].e = "call"
                                                   /\ last'.log[i].inst.p = last'.arg}) = 1
          /\ last'.err = WireFuncs[last'.arg].err]_vars

(***************************************************************************)
(* C20.  Wire and DryRun of a function without parameters, or with more    *)
(* than one result, fail validation before any dependency is resolved: no  *)
(* producer has run, the function was not called, and the maps of the      *)
(* container with everything they cache are as they were.                  *)
(***************************************************************************)
C20_InvalidWireFuncTouchesNothing ==
    [][(/\ last'.op \in {"Wire", "DryRun"}
        /\ last'.arg \in {"fnNoParams", "fnTwoResults"}) =>
          /\ last'.err = errInvalidWireFunc
          /\ last'.log = <<>>
          /\ calls' = calls
          /\ namedInjectors' = namedInjectors
          /\ typeInjectors' = typeInjectors
          /\ heap' = heap]_vars

\* a function with two results was refused although its parameter could
\* have been resolved by running a producer
C20_Witness ==
    /\ last.op = "Wire"
    /\ last.arg = "fnTwoResults"
    /\ last.err = errInvalidWireFunc
    /\ Registered(typeInjectors["*GreeterImpl"])
    /\ typeInjectors["*GreeterImpl"].instance = Nil
    /\ Cardinality(TypeKeyed("Greeter")) = 1

\* the sentinel errors the package declares
Sentinels == {ErrProviderNotFound, ErrProviderAlreadyExists, ErrMultipleProvidersFound}

\* the errors that the body of a producer or of a hook reports
UserErrors == {errGrumpy, errAfterWire}

(***************************************************************************)
(* C21.  Every error that a registration, a resolution, a wiring or a dry  *)
(* run returns and that does not come from the body of a producer or of a  *)
(* hook is identifiable as a sentinel of the package: a malformed factory  *)
(* and a malformed wire target, too, yield an error that errors.Is matches *)
(* against a sentinel.                                                     *)
(***************************************************************************)
C21_ErrorsAreSentinels ==
    last.err \notin ({NoErr, Panic} \cup UserErrors) => last.err \in Sentinels

(***************************************************************************)
(* C25.  When the caller invokes again a cleanup that has already been     *)
(* invoked, no state of the container changes: every injector caches the   *)
(* same instance as before, and has a cleanup cached exactly when it had   *)
(* one before, also when the singleton was created anew after the first    *)
(* invocation.                                                             *)
(***************************************************************************)
C25_StaleCleanupChangesNothing ==
    [][(last'.op = "Clean" /\ last'.arg = "again") =>
          /\ \A n \in Names :
                 /\ namedInjectors'[n].instance = namedInjectors[n].instance
                 /\ (namedInjectors'[n].clean = NilClean) = (namedInjectors[n].clean = NilClean)
          /\ \A t \in Types :
                 /\ typeInjectors'[t].instance = typeInjectors[t].instance
                 /\ (typeInjectors'[t].clean = NilClean) = (typeInjectors[t].clean = NilClean)]_vars

\* an instance of the type c is a child of the product of the provider p: it is
\* passed as a parameter of p, or injected into a marked field of p's product
ChildOf(c, p) ==
    \/ \E i \in DOMAIN Catalog[p].in :
           c = Catalog[p].in[i] \/ Implements(c, Catalog[p].in[i])
    \/ \E i \in DOMAIN WireFields(Catalog[p].out) :
           /\ Tagged(WireFields(Catalog[p].out)[i])
           /\ \/ c = WireFields(Catalog[p].out)[i].typ
              \/ Implements(c, WireFields(Catalog[p].out)[i].typ)

(***************************************************************************)
(* C26.  In a composed cleanup the caller fires, the cleanup a producer    *)
(* returned for a node runs after the cleanups of all children of that     *)
(* node: the dependencies passed as parameters of the producer and the     *)
(* dependencies injected into the marked fields of the instance.           *)
(***************************************************************************)
C26_OwnCleanupAfterChildren ==
    last.op = "Clean" =>
        \A i, j \in DOMAIN last.log :
            (/\ last.log[i].e = "clean"
             /\ last.log[j].e = "clean"
             /\ last.log[i].inst.p \in ProviderIds
             /\ ChildOf(last.log[j].inst.t, last.log[i].inst.p)) => j < i

(***************************************************************************)
(* C27.  A Wire that succeeds, on a struct and on a function alike, hands  *)
(* the caller a composed cleanup whenever the call created an instance     *)
(* whose producer returned a cleanup: no cleanup the call acquired is      *)
(* dropped.                                                                *)
(***************************************************************************)
C27_WireReturnsWhatItAcquired ==
    (last.op = "Wire" /\ last.err = NoErr /\ Created(last.log) # {}) => last.clean

\* the machine after the caller has invoked the Clean that DryRun(target)
\* returns in the present state; the machine after that DryRun when it fails
\* or returns a nil Clean
DryRunCleaned(target) ==
    LET r == wire(Machine, target, TRUE)
    IN  IF r.err # NoErr \/ r.c = NilClean THEN r.m ELSE Invoke(r.m, r.c)

(***************************************************************************)
(* C29.  The Clean that a DryRun returns is nil or does nothing: invoking  *)
(* it runs no cleanup callback, neither of a producer nor of an AfterWire  *)
(* hook, and leaves every injector as it was.                              *)
(***************************************************************************)
C29_DryRunCleanIsNoOp ==
    (api = 1 /\ last = Idle) =>
        \A target \in DryRunArgsV1 :
            /\ \A i \in DOMAIN DryRunCleaned(target).log :
                   DryRunCleaned(target).log[i].e # "clean"
            /\ DryRunCleaned(target).named = namedInjectors
            /\ DryRunCleaned(target).typed = typeInjectors

(***************************************************************************)
(* C22.  Resolve with a name under which nothing is registered fails with  *)
(* ErrProviderNotFound, runs no producer body, and leaves the two maps,    *)
(* every cached instance and every cached cleanup as they were.            *)
(***************************************************************************)
C22_UnregisteredNameNotFound ==
    [][(last'.op = "Resolve" /\ ~Registered(namedInjectors[last'.arg])) =>
          /\ last'.err = ErrProviderNotFound
          /\ last'.v = Nil
          /\ last'.log = <<>>
          /\ calls' = calls
          /\ namedInjectors' = namedInjectors
          /\ typeInjectors' = typeInjectors]_vars

\* an unregistered name was asked for while a singleton was cached and other
\* names were registered
C22_Witness ==
    /\ last.op = "Resolve"
    /\ ~Registered(namedInjectors[last.arg])
    /\ last.err = ErrProviderNotFound
    /\ \E n \in Names : Registered(namedInjectors[n])
    /\ \E t \in Types : typeInjectors[t].instance # Nil

\* the positions of log at which the body of a producer ran and reported an
\* error
Reported(log) ==
    {i \in DOMAIN log : /\ log[i].e = "call"
                        /\ log[i].inst.p \in ProviderIds
                        /\ Catalog[log[i].inst.p].err # NoErr}

(***************************************************************************)
(* C23.  When the body of a producer, at whatever depth of the graph,      *)
(* reports an error, Resolve, GetByType or Wire returns that error, and    *)
(* after the failing body no other body runs: neither the producers that   *)
(* were waiting for the failed dependency nor the function being wired.    *)
(***************************************************************************)
C23_ProducerErrorPropagates ==
    last.op \in RealOps =>
        \A i \in Reported(last.log) :
            /\ last.err = Catalog[last.log[i].inst.p].err
            /\ \A j \in DOMAIN last.log : j > i => last.log[j].e \notin {"call", "AfterWire"}

\* Wire of a function whose parameter is produced from a dependency that
\* failed, after another dependency of that producer had been created
C23_Witness ==
    /\ last.op = "Wire"
    /\ last.arg = "fnNeedy"
    /\ last.err = errGrumpy
    /\ \E i \in Reported(last.log) : /\ last.log[i].inst.p = "NewGrump"
                                     /\ i > 1
                                     /\ last.log[i - 1].inst.p = "NewGreeter"

\* the registered names whose product is of the type t or, t being an
\* interface, implements it
NamesOf(t) ==
    {n \in Names : /\ Registered(namedInjectors[n])
                   /\ \/ Catalog[namedInjectors[n].provider].out = t
                      \/ Kind(t) = "interface" /\
                         Implements(Catalog[namedInjectors[n].provider].out, t)}

\* the keys of the map that the call built for the parameter k, with the
\* provider whose product each key holds
Entries(call, k) ==
    {<<call.log[j].t, call.log[j].inst.p>> :
        j \in {x \in DOMAIN call.log : /\ call.log[x].e = "put"
                                       /\ call.log[x].i = k
                                       /\ call.log[x].inst.p \notin {"nil", "zero"}}}

\* the call ran the body of the function f with the map of type t as its
\* parameter k
CalledWithMap(call, f, k, t) ==
    \E j \in DOMAIN call.log : /\ call.log[j].e = "call"
                               /\ call.log[j].inst.p = f
                               /\ call.log[j].argv[k] = MapValue(t)

(***************************************************************************)
(* C24.  Wire of a function with a parameter of the type map[Named]T calls *)
(* the function with a map whose keys are exactly the registered names     *)
(* whose product is of the type T or, T being an interface, implements T,  *)
(* each key holding the product registered under it: a name of another     *)
(* type and a provider registered by type are not in the map.  When no     *)
(* name qualifies, Wire fails with ErrProviderNotFound and the function is *)
(* not called.                                                             *)
(***************************************************************************)
C24_NamedCollection ==
    (last.op = "Wire" /\ last.arg \in DOMAIN WireFuncs) =>
        \A k \in DOMAIN WireFuncs[last.arg].in :
            Kind(WireFuncs[last.arg].in[k]) = "map" =>
                IF NamesOf(MapElem(WireFuncs[last.arg].in[k])) = {}
                THEN /\ last.err = ErrProviderNotFound
                     /\ \A j \in DOMAIN last.log : last.log[j].e # "call"
                ELSE /\ last.err = NoErr
                     /\ CalledWithMap(last, last.arg, k, WireFuncs[last.arg].in[k])
                     /\ Entries(last, k) =
                            {<<n, namedInjectors[n].provider>> :
                                n \in NamesOf(MapElem(WireFuncs[last.arg].in[k]))}

\* the function took the two names that implement the interface while a name
\* of another type and an implementation registered by type were there too
C24_Witness ==
    /\ last.op = "Wire"
    /\ last.arg = "fnGreeters"
    /\ last.err = NoErr
    /\ Entries(last, 1) = {<<"polite", "NamedPolite">>, <<"hello", "NamedGreeter">>}
    /\ Registered(namedInjectors["event"])
    /\ Registered(typeInjectors["*GreeterImpl"])

\* the three ways in which a field is written
Writes == {"set", "setter", "poke"}

\* the instances the call stored into the field i of the struct t
Stored(call, t, i) ==
    {call.log[j].inst : j \in {x \in DOMAIN call.log : /\ call.log[x].e \in Writes
                                                       /\ call.log[x].t = t
                                                       /\ call.log[x].i = i}}

\* the instance that the field f resolves to: the one cached under the name
\* of the tag or, the name being empty, the one cached under a type that is
\* the type of the field or implements it
ResolvedFor(f) ==
    IF f.tag # ""
    THEN {namedInjectors[f.tag].instance}
    ELSE {typeInjectors[u].instance :
             u \in {x \in Types : /\ Registered(typeInjectors[x])
                                  /\ x = f.typ \/ Implements(x, f.typ)}}

(***************************************************************************)
(* C30.  After a Wire on a struct has succeeded, every field with a wire   *)
(* tag holds the instance resolved by the name in the tag or, when the     *)
(* name is empty, by the declared type of the field, and no field without  *)
(* a wire tag has been written.                                            *)
(***************************************************************************)
C30_MarkedFieldsAreWired ==
    (last.op = "Wire" /\ last.arg \in WireStructs /\ last.err = NoErr) =>
        \A i \in DOMAIN WireFields(last.arg) :
            IF WireFields(last.arg)[i].marked
            THEN /\ Cardinality(Stored(last, last.arg, i)) = 1
                 /\ Stored(last, last.arg, i) \subseteq ResolvedFor(WireFields(last.arg)[i])
                 /\ Nil \notin Stored(last, last.arg, i)
            ELSE Stored(last, last.arg, i) = {}

\* the struct with two tagged and two untagged fields was wired while
\* providers for the types of the untagged fields were registered
C30_Witness ==
    /\ last.op = "Wire"
    /\ last.arg = "*Mixed"
    /\ last.err = NoErr
    /\ Stored(last, "*Mixed", 2) = {Instance("NewGreeter", 1, "*GreeterImpl")}
    /\ Stored(last, "*Mixed", 3) = {Instance("NamedPolite", 0, "*Polite")}
    /\ Registered(typeInjectors["*Level3"])

(***************************************************************************)
(* C28.  A DryRun, whether it succeeds or fails, leaves the instance and   *)
(* the cleanup that every injector caches as they were, for the injectors  *)
(* never resolved and for the singletons already cached, and leaves the    *)
(* two maps of the registry as they were.                                  *)
(***************************************************************************)
C28_DryRunKeepsCaches ==
    [][last'.op = "DryRun" =>
          /\ \A n \in Names : namedInjectors'[n] = namedInjectors[n]
          /\ \A t \in Types : typeInjectors'[t] = typeInjectors[t]]_vars

\* a DryRun walked through a singleton that was cached with its cleanup and
\* through a provider that had never been resolved
C28_Witness ==
    /\ last.op = "DryRun"
    /\ last.arg = "fnGreeterLevel3"
    /\ last.err = NoErr
    /\ typeInjectors["*GreeterImpl"].instance # Nil
    /\ typeInjectors["*GreeterImpl"].clean # NilClean
    /\ Registered(typeInjectors["*Level3"])
    /\ typeInjectors["*Level3"].instance = Nil

\* the positions of the log of the call at which a field of the struct t was
\* assigned, and those at which the AfterWire hook of t ran
Assigned(call, t) ==
    {j \in DOMAIN call.log : call.log[j].e \in {"set", "setter", "poke"} /\ call.log[j].t = t}
Hooked(call, t) ==
    {j \in DOMAIN call.log : call.log[j].e = "AfterWire" /\ call.log[j].t = t}

\* the fields of the struct t that carry a wire tag
TaggedFields(t) == {i \in DOMAIN WireFields(t) : WireFields(t)[i].marked}

(***************************************************************************)
(* C31.  A Wire of a struct that has an AfterWire hook runs the hook       *)
(* exactly once, after the last tagged field has been assigned, and        *)
(* returns what the hook returns as its error; when a field failed to      *)
(* resolve, the hook does not run and Wire returns an error.               *)
(***************************************************************************)
C31_HookOnceAfterFields ==
    (last.op = "Wire" /\ last.arg \in WireStructs /\ AfterWireOf(last.arg).has) =>
        IF Cardinality(Assigned(last, last.arg)) = Cardinality(TaggedFields(last.arg))
        THEN /\ Cardinality(Hooked(last, last.arg)) = 1
             /\ \A h \in Hooked(last, last.arg) :
                    \A j \in Assigned(last, last.arg) : j < h
             /\ last.err = AfterWireOf(last.arg).err
        ELSE /\ Hooked(last, last.arg) = {}
             /\ last.err \notin {NoErr, AfterWireOf(last.arg).err}

\* the hook of a struct ran after its field was assigned, and its error came
\* back from Wire
C31_Witness ==
    /\ last.op = "Wire"
    /\ last.arg = "*Moody"
    /\ Assigned(last, "*Moody") # {}
    /\ Hooked(last, "*Moody") # {}
    /\ last.err = errAfterWire

\* the ways in which the call wrote the field i of the struct t
WrittenBy(call, t, i) ==
    {call.log[j].e : j \in {x \in DOMAIN call.log : /\ call.log[x].e \in Writes
                                                    /\ call.log[x].t = t
                                                    /\ call.log[x].i = i}}

(***************************************************************************)
(* C32.  A Wire on a struct that succeeds writes every tagged field in     *)
(* exactly one way: by direct assignment when the field can be set; else   *)
(* through the method Set<FieldName> of the struct when it has one; else   *)
(* by the forced write that ignores the visibility of the field.  In each  *)
(* of the three ways what is written is the resolved instance.             *)
(***************************************************************************)
C32_AssignmentPrecedence ==
    (last.op = "Wire" /\ last.arg \in WireStructs /\ last.err = NoErr) =>
        \A i \in TaggedFields(last.arg) :
            /\ WrittenBy(last, last.arg, i) =
                   {IF WireFields(last.arg)[i].exported THEN "set"
                    ELSE IF WireFields(last.arg)[i].setter THEN "setter"
                    ELSE "poke"}
            /\ Cardinality(Stored(last, last.arg, i)) = 1
            /\ Stored(last, last.arg, i) \subseteq ResolvedFor(WireFields(last.arg)[i])

\* one Wire wrote an exported field that also has a setter, an unexported
\* field with a setter and an unexported field without one
C32_Witness ==
    /\ last.op = "Wire"
    /\ last.arg = "*Shy"
    /\ last.err = NoErr
    /\ WrittenBy(last, "*Shy", 1) = {"set"}
    /\ WrittenBy(last, "*Shy", 2) = {"setter"}
    /\ WrittenBy(last, "*Shy", 3) = {"poke"}

(***************************************************************************)
(* C33.  A provider registered under a name is registered under the type   *)
(* it produces as well: whenever a name is registered, the type of its     *)
(* product has an injector in the map of the types, so that the provider   *)
(* can be resolved by its type.                                            *)
(***************************************************************************)
C33_NamedIsAlsoTyped ==
    \A n \in Names :
        Registered(namedInjectors[n]) =>
            \E t \in Types : /\ t = Typ(namedInjectors[n])
                             /\ Registered(typeInjectors[t])

(***************************************************************************)
(* C34.  A Wire that resolves a singleton provider through a field tagged  *)
(* transient runs the body of the producer and stores the new instance in  *)
(* the field, and the injector caches after the call what it cached        *)
(* before it, an instance or none; a GetByType that finds an instance      *)
(* cached returns that instance.                                           *)
(***************************************************************************)
C34_TransientFieldBypassesCache ==
    [][/\ (last'.op = "Wire" /\ last'.arg = "*Fresh" /\ last'.err = NoErr) =>
            /\ calls'["NewLevel3"] = calls["NewLevel3"] + 1
            /\ Stored(last', "*Fresh", 1) =
                   {Instance("NewLevel3", calls["NewLevel3"] + 1, "*Level3")}
            /\ typeInjectors'["*Level3"].instance = typeInjectors["*Level3"].instance
            /\ typeInjectors'["*Level3"].instance \notin Stored(last', "*Fresh", 1)
       /\ (/\ last'.op = "GetByType"
           /\ last'.arg = "*Level3"
           /\ typeInjectors["*Level3"].instance # Nil) =>
              /\ last'.v = typeInjectors["*Level3"].instance
              /\ calls' = calls]_vars

\* the field tagged transient was wired while the singleton was cached, and
\* the singleton is still cached
C34_Witness ==
    /\ last.op = "Wire"
    /\ last.arg = "*Fresh"
    /\ last.err = NoErr
    /\ typeInjectors["*Level3"].instance = Instance("NewLevel3", 1, "*Level3")
    /\ Stored(last, "*Fresh", 1) = {Instance("NewLevel3", 2, "*Level3")}

(***************************************************************************)
(* C35.  When a Wire on a struct fails because a tagged field did not      *)
(* resolve, the fields before that field have each been written once and   *)
(* keep what was written, the field that failed and the tagged fields      *)
(* after it have not been written, and the AfterWire hook has not run.     *)
(***************************************************************************)
C35_FailedFieldStopsTheWiring ==
    (/\ last.op = "Wire"
     /\ last.arg \in WireStructs
     /\ last.err # NoErr
     /\ Cardinality(Assigned(last, last.arg)) < Cardinality(TaggedFields(last.arg))) =>
        /\ \E f \in TaggedFields(last.arg) :
               \A i \in TaggedFields(last.arg) :
                   IF i < f
                   THEN /\ Cardinality(WrittenBy(last, last.arg, i)) = 1
                        /\ Cardinality(Stored(last, last.arg, i)) = 1
                        /\ Stored(last, last.arg, i) \cap {Nil, Zero(WireFields(last.arg)[i].typ)} = {}
                   ELSE Stored(last, last.arg, i) = {}
        /\ Hooked(last, last.arg) = {}

\* the second field of a struct failed to resolve after the first had been
\* written
C35_Witness ==
    /\ last.op = "Wire"
    /\ last.arg = "*Bar"
    /\ last.err = ErrProviderNotFound
    /\ Stored(last, "*Bar", 1) = {Instance("NewEvent", 1, "*Event")}
    /\ Stored(last, "*Bar", 2) = {}

(***************************************************************************)
(* C36.  In every state the container reaches, an injector caches an       *)
(* instance exactly when it caches a cleanup, and an injector registered   *)
(* as transient caches neither.                                            *)
(***************************************************************************)
C36_InstanceIffCleanup ==
    \A inj \in Injectors :
        /\ (inj.instance # Nil) <=> (inj.clean # NilClean)
        /\ inj.transient => (inj.instance = Nil /\ inj.clean = NilClean)

\* what a factory or a target asks the container for: a parameter asks by
\* type, a tagged field by its tag, or by type when the tag is empty
Ask(tag, typ) == [tag |-> tag, typ |-> typ]
AsksOfFields(t) ==
    {Ask(WireFields(t)[i].tag, WireFields(t)[i].typ) : i \in TaggedFields(t)}
AsksOf(p) ==
    {Ask("", Catalog[p].in[i]) : i \in DOMAIN Catalog[p].in} \cup AsksOfFields(Catalog[p].out)
\* the registered providers that answer
Answers(a) ==
    IF a.tag # ""
    THEN {namedInjectors[n].provider : n \in {k \in Names : k = a.tag /\ Registered(namedInjectors[k])}}
    ELSE IF Kind(a.typ) = "interface"
    THEN {typeInjectors[u].provider : u \in Matches(Machine, a.typ)}
    ELSE {typeInjectors[u].provider : u \in {k \in Types : k = a.typ /\ Registered(typeInjectors[k])}}
\* what the call itself asks for
AsksOfCall(call) ==
    CASE call.op = "Resolve" -> {Ask(call.arg, "")}
      [] call.op = "GetByType" -> {Ask("", call.arg)}
      [] call.op \in {"Wire", "DryRun"} /\ call.arg \in DOMAIN WireFuncs ->
            {Ask("", WireFuncs[call.arg].in[i]) : i \in DOMAIN WireFuncs[call.arg].in}
      [] call.op \in {"Wire", "DryRun"} /\ call.arg \notin DOMAIN WireFuncs ->
            AsksOfFields(call.arg)
      [] OTHER -> {}
Needs(p) == UNION {Answers(a) : a \in AsksOf(p)}
RECURSIVE GraphFrom(_)
\* the providers of the dependency graph that can be reached from S
GraphFrom(S) ==
    IF UNION {Needs(p) : p \in S} \subseteq S
    THEN S
    ELSE GraphFrom(S \cup UNION {Needs(p) : p \in S})
GraphOfCall(call) == GraphFrom(UNION {Answers(a) : a \in AsksOfCall(call)})
\* p needs, directly or through others, what it provides
OnCycle(p) == p \in GraphFrom(Needs(p))
Cyclic(call) == \E p \in GraphOfCall(call) : OnCycle(p)
\* nothing in the graph of the call can fail: every request has one answer
\* and no factory returns an error
Sound(call) ==
    /\ \A a \in AsksOfCall(call) : Cardinality(Answers(a)) = 1
    /\ \A p \in GraphOfCall(call) :
           /\ Catalog[p].err = NoErr
           /\ \A a \in AsksOf(p) : Cardinality(Answers(a)) = 1

(***************************************************************************)
(* C37.  A Resolve, GetByType, Wire or DryRun call that does not return    *)
(* has reached factories that form a dependency cycle, so on an acyclic    *)
(* graph the call always returns; and where nothing in the graph of the    *)
(* call can fail, the call returns exactly when that graph is acyclic: on  *)
(* a cycle it descends until the stack is exhausted and reports no error.  *)
(* A call whose graph holds a cycle never returns without an error: it     *)
(* fails before it reaches the cycle, or it does not return.               *)
(***************************************************************************)
C37_ReturnsIffAcyclic ==
    last.op \in {"Resolve", "GetByType", "Wire", "DryRun"} =>
        /\ last.err = StackOverflow => Cyclic(last)
        /\ Sound(last) => (last.err = StackOverflow <=> Cyclic(last))
        /\ Cyclic(last) => last.err # NoErr

\* a name was resolved whose factory needs one of two factories that need
\* each other
C37_Witness ==
    /\ last.op = "Resolve"
    /\ last.arg = "hen"
    /\ Sound(last)
    /\ Cyclic(last)
    /\ OnCycle("NewEgg")
    /\ ~OnCycle("NewHen")
    /\ last.err = StackOverflow

\* the instances whose own cleanup callback the closures S lead to
Callbacks(hp, S) ==
    {hp[c].inst : c \in {d \in Reach(hp, S) : hp[d].k \in {"user", "hook"}}}
\* the instances whose cleanup callback a cache of the container leads to
CachedCallbacks ==
    Callbacks(heap, {inj.clean : inj \in Injectors} \ {NilClean})
\* the instances whose cleanup callback ran during a call, and the
\* instances made during it
CleanedIn(call) ==
    {call.log[i].inst : i \in {j \in DOMAIN call.log : call.log[j].e = "clean"}}
MadeIn(call) ==
    {call.log[i].inst : i \in {j \in DOMAIN call.log : call.log[j].e \in {"call", "AfterWire"}}}
\* made by a provider that is registered as transient
TransientMade(inst) ==
    \E inj \in Injectors : Registered(inj) /\ inj.transient /\ inj.provider = inst.p
\* what a call handed to its caller without going through a cache: the
\* transient instance it returned or passed to the wired function, and the
\* wired struct whose hook returned a cleanup
Direct(call) ==
    CASE call.op \in {"Resolve", "GetByType"} -> {v \in {call.v} : TransientMade(v)}
      [] call.op = "Wire" /\ call.arg \in DOMAIN WireFuncs ->
            {v \in UNION {Range(call.log[i].argv) :
                             i \in {j \in DOMAIN call.log : /\ call.log[j].e = "call"
                                                            /\ call.log[j].inst.p = call.arg}} :
                TransientMade(v)}
      [] call.op = "Wire" /\ call.arg \notin DOMAIN WireFuncs ->
            {call.log[j].inst : j \in Hooked(call, call.arg)}
      [] OTHER -> {}

(***************************************************************************)
(* C38.  Destroy runs only cleanup callbacks that a cache of the           *)
(* container leads to, and only injectors that are not transient and hold  *)
(* an instance cache a cleanup.  The cleanup of a transient instance that  *)
(* Resolve, GetByType or Wire obtained directly, and the cleanup returned  *)
(* by the AfterWire hook of the struct handed to Wire, is in no cache      *)
(* after the call, and no later operation runs a cleanup callback other    *)
(* than those the caches led to before it and those of the instances the   *)
(* operation made itself.                                                  *)
(***************************************************************************)
C38_DestroyRunsCachedCleanupsOnly ==
    [][/\ \A inj \in Injectors :
              inj.clean # NilClean => (~inj.transient /\ inj.instance # Nil)
       /\ last'.op = "Destroy" => CleanedIn(last') \subseteq CachedCallbacks
       /\ last'.op # "idle" =>
              CleanedIn(last') \subseteq (CachedCallbacks \cup MadeIn(last'))
       /\ (last'.op \in {"Resolve", "GetByType", "Wire"} /\ last'.err = NoErr) =>
              Direct(last') \cap CachedCallbacks' = {}]_vars

\* a struct was wired whose hook returned a cleanup, while the caches of
\* the container hold the cleanups of what was wired into it
C38_Witness ==
    /\ last.op = "Wire"
    /\ last.arg = "*Bar"
    /\ last.err = NoErr
    /\ Direct(last) # {}
    /\ Direct(last) \cap CachedCallbacks = {}
    /\ CachedCallbacks # {}
    /\ typeInjectors["*Ticket"].transient

====
